---- MODULE Spec2Model ----
(***************************************************************************)
(* State-machine model of the VM web-shell server (src/main.go): the       *)
(* session registry guarded by sessionsMu, createSession with its network  *)
(* setup and rollback, closeSessionHandler, the sessionCleaner loop,       *)
(* cleanupSession, and the wsHandler byte bridge between a websocket       *)
(* connection and a machine's pty.                                         *)
(*                                                                         *)
(* Every handler is a task that advances one call (or one critical        *)
(* section of sessionsMu) per step, so that the interleavings the Go       *)
(* scheduler allows are the behaviours of the model; setupNetwork and      *)
(* cleanupNetwork run their command lists in one step.  External commands, *)
(* process launches and I/O calls succeed or fail nondeterministically.    *)
(* Time is counted in units of sessionTimeout (10 minutes).                *)
(***************************************************************************)
EXTENDS Integers, Sequences, FiniteSets, TLC

(***************************************************************************)
(* Bounds of the model.                                                    *)
(***************************************************************************)
MaxObj == 2        \* Session objects createSession allocates in one run
MaxClosers == 2    \* close requests served in one run
MaxTime == 2       \* the clock runs from 0 to MaxTime
MaxFaults == 1     \* failures of the environment (commands, launches) in one run
MaxConns == 2      \* websocket connections accepted in one run
MaxOut == 2        \* bytes the machines print in one run
MaxMsgs == 1       \* messages the clients send in one run

(***************************************************************************)
(* Program constants.                                                      *)
(***************************************************************************)
sessionTimeout == 1     \* 10 * time.Minute, the unit of the model's clock
hashLength == 6         \* generateShortHash(6)
maxHashLength == 12     \* the cap inside generateShortHash
IFNAMSIZ == 15          \* the interface-name limit createSession checks

Objs == 1 .. MaxObj
Closers == 1 .. MaxClosers
Times == 0 .. MaxTime
Conns == 1 .. MaxConns
Machines == {"1", "2"}

(***************************************************************************)
(* generateShortHash: length/2 random bytes, hex encoded.  SampleBytes     *)
(* stands for the values rand.Read can put in a byte; the model draws the  *)
(* same byte for every position, which keeps the set of hashes small while *)
(* leaving collisions between two calls possible, as they are in the code. *)
(***************************************************************************)
SampleBytes == {161, 15}

HexDigits == <<"0", "1", "2", "3", "4", "5", "6", "7",
               "8", "9", "a", "b", "c", "d", "e", "f">>

HexByte(b) == HexDigits[(b \div 16) + 1] \o HexDigits[(b % 16) + 1]

RECURSIVE EncodeToString(_)
EncodeToString(bs) ==
    IF bs = <<>> THEN ""
    ELSE HexByte(Head(bs)) \o EncodeToString(Tail(bs))

RandRead(n) == {[i \in 1 .. n |-> b] : b \in SampleBytes}

generateShortHash(length) ==
    LET len == IF length > maxHashLength THEN maxHashLength ELSE length
    IN  {EncodeToString(bs) : bs \in RandRead(len \div 2)}

Hashes == generateShortHash(hashLength)

\* Interface names derived from the hash in createSession.
bridgeName(h) == "br-" \o h
tapName(m, h) == "tap" \o m \o "-" \o h
IfNames == {bridgeName(h) : h \in Hashes}
           \cup {tapName(m, h) : m \in Machines, h \in Hashes}

NoObj == 0
Free == <<"free", 0>>

VARIABLES
    sessions,    \* the registry: hash -> Session object, NoObj when absent
    hash,        \* Session.hash of each object ("" before it is allocated)
    lastActive,  \* Session.lastActive
    ptyFiles,    \* Session.ptyFiles: machine -> "none" | "open" | "closed"
    cmds,        \* Session.cmds: machine -> "none" | "running" | "exited" | "killed"
    mac,         \* the last octet of the MAC address on a machine's command line
    ifaces,      \* the kernel's interface table (names that exist)
    faults,      \* failures of the environment so far
    mu,          \* sessionsMu: Free or the task that holds it
    now,         \* time.Now()
    cpc,         \* createSession call of each object: its position
    kpc,         \* closeSessionHandler call: its position
    kid,         \* ... its sessionID parameter
    ksess,       \* ... the session it removed
    kresp,       \* ... the HTTP status it answered (0 = none yet)
    rpc,         \* sessionCleaner: "idle" between ticks, "locked" in a scan
    gpc,         \* goroutine `go cleanupSession(session)` of each object
    tdStarted,   \* history: number of cleanupSession calls made for the object
    removals,    \* history: number of delete(sessions, id) that removed the object
    wpc,         \* wsHandler call of each connection: its position
    wsid,        \* ... its sessionID parameter
    wmach,       \* ... its machine parameter
    wsess,       \* ... the session it looked up
    wresp,       \* ... the HTTP status it answered (0 = none yet)
    wmsg,        \* ... the message ReadMessage returned last
    conn,        \* wsConn: "none" | "open" | "closed" (Close was called)
    gone,        \* the client closed its end of the connection
    inq,         \* messages the client sent that the server has not read
    frames,      \* history: the frames delivered to the client, in order
    gr,          \* the pty-reading goroutine: "none" | "read" | "write" | "done"
    gchunk,      \* ... the chunk ptmx.Read returned
    ptyBuf,      \* bytes a machine printed that nobody has read yet
    ptyIn,       \* history: what was written to a machine's pty, and by whom
    produced,    \* history: the pty's output a bridge is entitled to
    got,         \* history: the text/binary payloads ReadMessage returned to a bridge
    prior,       \* history: the machine's bridges already disconnected at the attach
    nOut,        \* bytes printed so far (the next byte's value)
    printed,     \* history: the bytes each machine printed, in order
    nMsg         \* messages sent so far (the next message's payload)

lifeVars == <<sessions, hash, lastActive, ptyFiles, cmds, mac, ifaces, faults, mu, now,
              cpc, kpc, kid, ksess, kresp, rpc, gpc, tdStarted, removals>>

wsVars == <<wpc, wsid, wmach, wsess, wresp, wmsg, conn, gone, inq, frames,
            gr, gchunk, ptyBuf, ptyIn, produced, got, prior, nOut, printed, nMsg>>

vars == <<lifeVars, wsVars>>

(***************************************************************************)
(* External commands.  A command is a record [op, dev, br]; runCommand     *)
(* returns an error when the `ip` tool exits non-zero.  The tool fails     *)
(* when the device it names is missing (or, for an add, already there);    *)
(* any command may also fail for a reason outside the model.               *)
(***************************************************************************)
Cmd(op, dev, br) == [op |-> op, dev |-> dev, br |-> br]

\* A tap device is busy while the qemu process started on it is running.
TapHeld(n) ==
    \E o \in Objs, m \in Machines :
        /\ hash[o] # ""
        /\ n = tapName(m, hash[o])
        /\ cmds[o][m] = "running"

\* The outcomes of runCommand(c) on the interface table ifs, f failures of
\* the environment having happened so far: whether it returned nil, the
\* interface table and the failure count afterwards.  `refused` is the
\* tool's own refusal (device missing or already there); `broke` is a
\* failure from outside the model, possible while the budget lasts.
runCommand(c, ifs, f) ==
    LET refused == {[ok |-> FALSE, ifs |-> ifs, f |-> f]}
        broke == IF f < MaxFaults
                 THEN {[ok |-> FALSE, ifs |-> ifs, f |-> f + 1]} ELSE {}
        keep == {[ok |-> TRUE, ifs |-> ifs, f |-> f]}
        add  == {[ok |-> TRUE, ifs |-> ifs \cup {c.dev}, f |-> f]}
        del  == {[ok |-> TRUE, ifs |-> ifs \ {c.dev}, f |-> f]}
    IN  CASE c.op = "addbr" ->
               IF c.dev \in ifs THEN refused ELSE add \cup broke
          [] c.op = "tapadd" ->
               IF c.dev \in ifs
               THEN (IF TapHeld(c.dev) THEN refused ELSE keep \cup broke)
               ELSE add \cup broke
          [] c.op \in {"delbr", "del"} ->
               IF c.dev \in ifs THEN del \cup broke ELSE refused
          [] c.op \in {"up", "down"} ->
               IF c.dev \in ifs THEN keep \cup broke ELSE refused
          [] c.op = "master" ->
               IF c.dev \in ifs /\ c.br \in ifs THEN keep \cup broke ELSE refused

\* interfaceExists(name): (true, nil), (false, nil) or an error.
interfaceExists(name, ifs, f) ==
    {[exists |-> name \in ifs, err |-> FALSE, f |-> f]}
    \cup (IF f < MaxFaults
          THEN {[exists |-> FALSE, err |-> TRUE, f |-> f + 1]} ELSE {})

\* The orders in which `for _, tap := range session.tapNames` can visit
\* the two machines (Go randomises map iteration).
TapOrders == {<<"1", "2">>, <<"2", "1">>}

\* setupNetwork's commands after the existence check of the bridge.
SetupCmds(h, order) ==
    LET tap(i) == tapName(order[i], h)
        for(i) == <<Cmd("tapadd", tap(i), ""),
                    Cmd("master", tap(i), bridgeName(h)),
                    Cmd("up", tap(i), "")>>
    IN  <<Cmd("show", bridgeName(h), ""),
          Cmd("addbr", bridgeName(h), ""),
          Cmd("up", bridgeName(h), "")>> \o for(1) \o for(2)

\* cleanupNetwork's command list: the bridge first, then every tap.
CleanupCmds(h, order) ==
    LET tap(i) == tapName(order[i], h)
        for(i) == <<Cmd("down", tap(i), ""), Cmd("del", tap(i), "")>>
    IN  <<Cmd("down", bridgeName(h), ""),
          Cmd("delbr", bridgeName(h), "")>> \o for(1) \o for(2)

\* A setup step whose error is not looked at: the next step runs anyway.
SetupCmdStepSwallowing(q, ifs, f) ==
    LET c == Head(q)
    IN  IF c.op = "show"
        THEN {[ok |-> ~r.err, ifs |-> ifs, f |-> r.f,
               rest |-> IF r.exists THEN <<Cmd("delbr", c.dev, "")>> \o Tail(q)
                        ELSE Tail(q)] : r \in interfaceExists(c.dev, ifs, f)}
        ELSE {[ok |-> TRUE, ifs |-> r.ifs, f |-> r.f, rest |-> Tail(q)] :
                 r \in runCommand(c, ifs, f)}

\* A setup step that creates the bridge without deleting one that exists.
SetupCmdStepKeepingBridge(q, ifs, f) ==
    LET c == Head(q)
    IN  IF c.op = "show"
        THEN {[ok |-> ~r.err, ifs |-> ifs, f |-> r.f, rest |-> Tail(q)] :
                 r \in interfaceExists(c.dev, ifs, f)}
        ELSE {[ok |-> r.ok, ifs |-> r.ifs, f |-> r.f, rest |-> Tail(q)] :
                 r \in runCommand(c, ifs, f)}

\* One step of setupNetwork on the pending command list q: the existence
\* check decides whether the delete of the bridge is run; any other command
\* either succeeds or makes setupNetwork return its error.
SetupCmdStep(q, ifs, f) ==
    LET c == Head(q)
    IN  IF c.op = "show"
        THEN {[ok |-> ~r.err, ifs |-> ifs, f |-> r.f,
               rest |-> IF r.exists THEN <<Cmd("delbr", c.dev, "")>> \o Tail(q)
                        ELSE Tail(q)] : r \in interfaceExists(c.dev, ifs, f)}
        ELSE {[ok |-> r.ok, ifs |-> r.ifs, f |-> r.f, rest |-> Tail(q)] :
                 r \in runCommand(c, ifs, f)}

\* setupNetwork run to its return: the first failing step aborts it.  `ran`
\* lists the steps it executed, in order, each with whether it returned nil.
RECURSIVE RunSetup(_, _, _)
RunSetup(q, ifs, f) ==
    IF q = <<>> THEN {[ok |-> TRUE, ifs |-> ifs, f |-> f, ran |-> <<>>]}
    ELSE UNION {IF r.ok
                THEN {[ok |-> t.ok, ifs |-> t.ifs, f |-> t.f,
                       ran |-> <<[cmd |-> Head(q), ok |-> TRUE]>> \o t.ran] :
                          t \in RunSetup(r.rest, r.ifs, r.f)}
                ELSE {[ok |-> FALSE, ifs |-> r.ifs, f |-> r.f,
                       ran |-> <<[cmd |-> Head(q), ok |-> FALSE]>>]} :
                    r \in SetupCmdStep(q, ifs, f)}

setupNetwork(h, ifs, f) ==
    UNION {RunSetup(SetupCmds(h, order), ifs, f) : order \in TapOrders}

\* A cleanup loop that returns at the first command that fails.
CleanupCmdStepAborting(q, ifs, f) ==
    {[ifs |-> r.ifs, f |-> r.f, logged |-> ~r.ok /\ r.f > f,
      rest |-> IF r.ok THEN Tail(q) ELSE <<>>] :
        r \in runCommand(Head(q), ifs, f)}

\* A cleanup loop that reports a missing device like any other failure.
CleanupCmdStepLoggingMissing(q, ifs, f) ==
    {[ifs |-> r.ifs, f |-> r.f, logged |-> ~r.ok, rest |-> Tail(q)] :
        r \in runCommand(Head(q), ifs, f)}

\* One command of cleanupNetwork: whatever the outcome, the loop goes on
\* (lines 337-346).  An error that says the device is missing is passed over
\* in silence (338-341); any other error is logged as a failure (342).
CleanupCmdStep(q, ifs, f) ==
    {[ifs |-> r.ifs, f |-> r.f, logged |-> ~r.ok /\ r.f > f, rest |-> Tail(q)] :
        r \in runCommand(Head(q), ifs, f)}

\* cleanupNetwork's loop run to its end: the interface tables it can leave,
\* with the commands it ran, in order, and the number of failures it logged.
RECURSIVE RunCleanup(_, _, _)
RunCleanup(q, ifs, f) ==
    IF q = <<>> THEN {[ifs |-> ifs, f |-> f, ran |-> <<>>, logged |-> 0]}
    ELSE UNION {{[ifs |-> t.ifs, f |-> t.f, ran |-> <<Head(q)>> \o t.ran,
                  logged |-> t.logged + (IF r.logged THEN 1 ELSE 0)] :
                    t \in RunCleanup(r.rest, r.ifs, r.f)} :
                r \in CleanupCmdStep(q, ifs, f)}

\* cleanupNetwork(session): the loop, then `return nil` (line 348).
cleanupNetwork(h, ifs, f) ==
    UNION {{[ifs |-> r.ifs, f |-> r.f, ran |-> r.ran, logged |-> r.logged,
             err |-> FALSE] : r \in RunCleanup(CleanupCmds(h, order), ifs, f)} :
           order \in TapOrders}

NoMachines == [m \in Machines |-> "none"]

\* The octet of a machine for which no command line was built.
NoMac == -1

\* The number a machine id denotes, and machineID[0]: the byte of its
\* first (and only) character, the ASCII code of the digit ('0' is 48).
DigitValue(m) == CASE m = "1" -> 1 [] m = "2" -> 2
FirstByte(m) == 48 + DigitValue(m)

\* src/main.go line 384: `100+machineID[0]`, an expression of type byte,
\* printed with %02x as the last octet of the MAC address.
macSuffix(m) == (100 + FirstByte(m)) % 256

\* The copy in src/index.html (lines 590-595):
\* machineNum := int(machineID[0] - '0'); macSuffix := 100 + machineNum.
macSuffixCopy(m) == 100 + ((FirstByte(m) - 48) % 256)

\* A websocket message: its type, its payload and when the client sent it.
NoMsg == [type |-> "none", data |-> 0, sent |-> 0]
\* ReadMessage hands the handler data messages only (text or binary).
MsgTypes == {"text", "binary"}

\* The state after main's construction, the host's interface table holding
\* the interfaces ifs when the program starts.
InitOn(ifs) ==
    /\ sessions = [h \in Hashes |-> NoObj]
    /\ hash = [o \in Objs |-> ""]
    /\ lastActive = [o \in Objs |-> 0]
    /\ ptyFiles = [o \in Objs |-> NoMachines]
    /\ cmds = [o \in Objs |-> NoMachines]
    /\ mac = [o \in Objs |-> [m \in Machines |-> NoMac]]
    /\ ifaces = ifs
    /\ faults = 0
    /\ mu = Free
    /\ now = 0
    /\ cpc = [o \in Objs |-> "idle"]
    /\ kpc = [k \in Closers |-> "idle"]
    /\ kid = [k \in Closers |-> ""]
    /\ ksess = [k \in Closers |-> NoObj]
    /\ kresp = [k \in Closers |-> 0]
    /\ rpc = "idle"
    /\ gpc = [o \in Objs |-> "none"]
    /\ tdStarted = [o \in Objs |-> 0]
    /\ removals = [o \in Objs |-> 0]
    /\ wpc = [c \in Conns |-> "idle"]
    /\ wsid = [c \in Conns |-> ""]
    /\ wmach = [c \in Conns |-> ""]
    /\ wsess = [c \in Conns |-> NoObj]
    /\ wresp = [c \in Conns |-> 0]
    /\ wmsg = [c \in Conns |-> NoMsg]
    /\ conn = [c \in Conns |-> "none"]
    /\ gone = [c \in Conns |-> FALSE]
    /\ inq = [c \in Conns |-> <<>>]
    /\ frames = [c \in Conns |-> <<>>]
    /\ gr = [c \in Conns |-> "none"]
    /\ gchunk = [c \in Conns |-> <<>>]
    /\ ptyBuf = [o \in Objs |-> [m \in Machines |-> <<>>]]
    /\ ptyIn = [o \in Objs |-> [m \in Machines |-> <<>>]]
    /\ produced = [c \in Conns |-> <<>>]
    /\ got = [c \in Conns |-> <<>>]
    /\ prior = [c \in Conns |-> {}]
    /\ nOut = 0
    /\ printed = [o \in Objs |-> [m \in Machines |-> <<>>]]
    /\ nMsg = 0

\* The program starts on a host without interfaces of its naming scheme.
Init == InitOn({})

\* The program starts on a host where an earlier run that crashed left
\* some of its interfaces behind (its processes died with it).
InitStale == \E ifs \in SUBSET IfNames : InitOn(ifs)

(***************************************************************************)
(* createSession                                                           *)
(***************************************************************************)
\* Lines 179-199: draw the hash, derive and check the names, build the
\* Session.  rand.Read may fail, and then nothing was built.
CreateStart(o) ==
    /\ cpc[o] = "idle"
    /\ \A p \in Objs : p < o => cpc[p] # "idle"
    /\ \/ /\ faults < MaxFaults
          /\ faults' = faults + 1
          /\ cpc' = [cpc EXCEPT ![o] = "err"]
          /\ UNCHANGED <<hash, lastActive>>
       \/ \E h \in generateShortHash(hashLength) :
            IF \/ Len(bridgeName(h)) > IFNAMSIZ
               \/ \E m \in Machines : Len(tapName(m, h)) > IFNAMSIZ
            THEN /\ cpc' = [cpc EXCEPT ![o] = "err"]
                 /\ UNCHANGED <<hash, lastActive, faults>>
            ELSE /\ faults' = faults
                 /\ hash' = [hash EXCEPT ![o] = h]
                 /\ lastActive' = [lastActive EXCEPT ![o] = now]
                 /\ cpc' = [cpc EXCEPT ![o] = "setup"]
    /\ UNCHANGED wsVars
    /\ UNCHANGED mac
    /\ UNCHANGED <<sessions, ptyFiles, cmds, ifaces, mu, now, kpc, kid, ksess,
                   kresp, rpc, gpc, tdStarted, removals>>

\* Lines 201-203: setupNetwork(session); its error is returned at once.
CreateSetup(o) ==
    /\ cpc[o] = "setup"
    /\ \E r \in setupNetwork(hash[o], ifaces, faults) :
         /\ ifaces' = r.ifs
         /\ faults' = r.f
         /\ cpc' = [cpc EXCEPT ![o] = IF r.ok THEN "m1" ELSE "err"]
    /\ UNCHANGED wsVars
    /\ UNCHANGED mac
    /\ UNCHANGED <<sessions, hash, lastActive, ptyFiles, cmds, mu, now, kpc,
                   kid, ksess, kresp, rpc, gpc, tdStarted, removals>>

\* startMachine(session, m, tap): pty.Start either fails, storing nothing,
\* or stores the pty and the command under the machine id.
startMachine(o, m, ok) ==
    IF ok
    THEN /\ ptyFiles' = [ptyFiles EXCEPT ![o][m] = "open"]
         /\ cmds' = [cmds EXCEPT ![o][m] = "running"]
         /\ mac' = [mac EXCEPT ![o][m] = macSuffix(m)]
         /\ faults' = faults
    ELSE /\ faults < MaxFaults
         /\ faults' = faults + 1
         /\ UNCHANGED <<ptyFiles, cmds, mac>>

\* A createSession that ignores startMachine's error and goes on.
AfterMachineIgnoringError(m, ok) == IF m = "1" THEN "m2" ELSE "lock"

\* Where createSession goes after startMachine(m) returned.
AfterMachine(m, ok) ==
    IF ~ok THEN "rollback" ELSE IF m = "1" THEN "m2" ELSE "lock"

\* Lines 205 and 209: start machine m.
CreateMachine(o, m) ==
    /\ cpc[o] = (IF m = "1" THEN "m1" ELSE "m2")
    /\ \E ok \in BOOLEAN :
         /\ startMachine(o, m, ok)
         /\ cpc' = [cpc EXCEPT ![o] = AfterMachine(m, ok)]
    /\ UNCHANGED wsVars
    /\ UNCHANGED <<sessions, hash, lastActive, ifaces, mu, now, kpc, kid,
                   ksess, kresp, rpc, gpc, tdStarted, removals>>

\* Lines 206-207 and 210-211: cleanupNetwork(session), then the error is
\* returned.
CreateRollback(o) ==
    /\ cpc[o] = "rollback"
    /\ \E r \in cleanupNetwork(hash[o], ifaces, faults) :
         /\ ifaces' = r.ifs
         /\ faults' = r.f
    /\ cpc' = [cpc EXCEPT ![o] = "err"]
    /\ UNCHANGED wsVars
    /\ UNCHANGED mac
    /\ UNCHANGED <<sessions, hash, lastActive, ptyFiles, cmds, mu, now, kpc,
                   kid, ksess, kresp, rpc, gpc, tdStarted, removals>>

\* Line 215: sessionsMu.Lock().
CreateLock(o) ==
    /\ cpc[o] = "lock"
    /\ mu = Free
    /\ mu' = <<"create", o>>
    /\ cpc' = [cpc EXCEPT ![o] = "insert"]
    /\ UNCHANGED wsVars
    /\ UNCHANGED mac
    /\ UNCHANGED <<sessions, hash, lastActive, ptyFiles, cmds, ifaces, faults, now,
                   kpc, kid, ksess, kresp, rpc, gpc, tdStarted, removals>>

\* Lines 216-217: sessions[hash] = session; sessionsMu.Unlock().
CreateInsert(o) ==
    /\ cpc[o] = "insert"
    /\ mu = <<"create", o>>
    /\ sessions' = [sessions EXCEPT ![hash[o]] = o]
    /\ mu' = Free
    /\ cpc' = [cpc EXCEPT ![o] = "ok"]
    /\ UNCHANGED wsVars
    /\ UNCHANGED mac
    /\ UNCHANGED <<hash, lastActive, ptyFiles, cmds, ifaces, faults, now, kpc, kid,
                   ksess, kresp, rpc, gpc, tdStarted, removals>>

(***************************************************************************)
(* cleanupSession                                                          *)
(***************************************************************************)
\* Lines 226-234: Process.Kill on every command the session holds.  Kill
\* of a process that already exited returns an error, which is logged.
KillAll(o) ==
    [cmds EXCEPT ![o] =
        [m \in Machines |-> IF cmds[o][m] = "running" THEN "killed" ELSE cmds[o][m]]]

\* A teardown that also takes the closed ptys out of session.ptyFiles.
CloseAllPtysForgetting(o) ==
    [ptyFiles EXCEPT ![o] = [m \in Machines |-> "none"]]

\* Lines 237-241: Close on every pty the session holds.
CloseAllPtys(o) ==
    [ptyFiles EXCEPT ![o] =
        [m \in Machines |-> IF ptyFiles[o][m] = "open" THEN "closed" ELSE ptyFiles[o][m]]]

(***************************************************************************)
(* closeSessionHandler                                                     *)
(***************************************************************************)
\* Lines 78-82: a request arrives; a missing sessionID is a bad request.
CloseRequest(k) ==
    /\ kpc[k] = "idle"
    /\ \A j \in Closers : j < k => kpc[j] # "idle"
    /\ \E id \in Hashes \cup {""} :
         /\ kid' = [kid EXCEPT ![k] = id]
         /\ IF id = ""
            THEN /\ kpc' = [kpc EXCEPT ![k] = "done"]
                 /\ kresp' = [kresp EXCEPT ![k] = 400]
            ELSE /\ kpc' = [kpc EXCEPT ![k] = "lock"]
                 /\ kresp' = kresp
    /\ UNCHANGED wsVars
    /\ UNCHANGED mac
    /\ UNCHANGED <<sessions, hash, lastActive, ptyFiles, cmds, ifaces, faults, mu, now,
                   cpc, ksess, rpc, gpc, tdStarted, removals>>

\* Line 84: sessionsMu.Lock().
CloseLock(k) ==
    /\ kpc[k] = "lock"
    /\ mu = Free
    /\ mu' = <<"close", k>>
    /\ kpc' = [kpc EXCEPT ![k] = "locked"]
    /\ UNCHANGED wsVars
    /\ UNCHANGED mac
    /\ UNCHANGED <<sessions, hash, lastActive, ptyFiles, cmds, ifaces, faults, now, cpc,
                   kid, ksess, kresp, rpc, gpc, tdStarted, removals>>

\* A handler that forgets the delete of line 91: the registry is left as
\* it was.
keepSession(id) == sessions

\* Line 91: delete(sessions, sessionID).
deleteSession(id) == [sessions EXCEPT ![id] = NoObj]

\* A handler that answers 200 as soon as the session is out of the
\* registry, before cleanupSession has run.
CloseRemoveAnsweringFirst(k) ==
    /\ kpc[k] = "locked"
    /\ mu = <<"close", k>>
    /\ mu' = Free
    /\ IF sessions[kid[k]] = NoObj
       THEN /\ kpc' = [kpc EXCEPT ![k] = "done"]
            /\ kresp' = [kresp EXCEPT ![k] = 404]
            /\ UNCHANGED <<sessions, ksess, removals>>
       ELSE /\ ksess' = [ksess EXCEPT ![k] = sessions[kid[k]]]
            /\ sessions' = deleteSession(kid[k])
            /\ removals' = [removals EXCEPT ![sessions[kid[k]]] = @ + 1]
            /\ kpc' = [kpc EXCEPT ![k] = "cleanup"]
            /\ kresp' = [kresp EXCEPT ![k] = 200]
    /\ UNCHANGED wsVars
    /\ UNCHANGED mac
    /\ UNCHANGED <<hash, lastActive, ptyFiles, cmds, ifaces, faults, now, cpc, kid,
                   rpc, gpc, tdStarted>>

\* A handler that answers 200 for an id it does not find.
CloseRemoveUnknownOK(k) ==
    /\ kpc[k] = "locked"
    /\ mu = <<"close", k>>
    /\ mu' = Free
    /\ IF sessions[kid[k]] = NoObj
       THEN /\ kpc' = [kpc EXCEPT ![k] = "done"]
            /\ kresp' = [kresp EXCEPT ![k] = 200]
            /\ UNCHANGED <<sessions, ksess, removals>>
       ELSE /\ ksess' = [ksess EXCEPT ![k] = sessions[kid[k]]]
            /\ sessions' = deleteSession(kid[k])
            /\ removals' = [removals EXCEPT ![sessions[kid[k]]] = @ + 1]
            /\ kpc' = [kpc EXCEPT ![k] = "cleanup"]
            /\ kresp' = kresp
    /\ UNCHANGED wsVars
    /\ UNCHANGED mac
    /\ UNCHANGED <<hash, lastActive, ptyFiles, cmds, ifaces, faults, now, cpc, kid,
                   rpc, gpc, tdStarted>>

\* Lines 85-92: look the session up; unknown is "not found"; otherwise
\* delete it from the registry, and unlock.
CloseRemove(k) ==
    /\ kpc[k] = "locked"
    /\ mu = <<"close", k>>
    /\ mu' = Free
    /\ IF sessions[kid[k]] = NoObj
       THEN /\ kpc' = [kpc EXCEPT ![k] = "done"]
            /\ kresp' = [kresp EXCEPT ![k] = 404]
            /\ UNCHANGED <<sessions, ksess, removals>>
       ELSE /\ ksess' = [ksess EXCEPT ![k] = sessions[kid[k]]]
            /\ sessions' = deleteSession(kid[k])
            /\ removals' = [removals EXCEPT ![sessions[kid[k]]] = @ + 1]
            /\ kpc' = [kpc EXCEPT ![k] = "cleanup"]
            /\ kresp' = kresp
    /\ UNCHANGED wsVars
    /\ UNCHANGED mac
    /\ UNCHANGED <<hash, lastActive, ptyFiles, cmds, ifaces, faults, now, cpc, kid,
                   rpc, gpc, tdStarted>>

\* Line 94: cleanupSession(session) is entered and kills the machines.
CloseKill(k) ==
    /\ kpc[k] = "cleanup"
    /\ tdStarted' = [tdStarted EXCEPT ![ksess[k]] = @ + 1]
    /\ cmds' = KillAll(ksess[k])
    /\ kpc' = [kpc EXCEPT ![k] = "ptys"]
    /\ UNCHANGED wsVars
    /\ UNCHANGED mac
    /\ UNCHANGED <<sessions, hash, lastActive, ptyFiles, ifaces, faults, mu, now, cpc,
                   kid, ksess, kresp, rpc, gpc, removals>>

\* cleanupSession closes the ptys.
ClosePtys(k) ==
    /\ kpc[k] = "ptys"
    /\ ptyFiles' = CloseAllPtys(ksess[k])
    /\ kpc' = [kpc EXCEPT ![k] = "net"]
    /\ UNCHANGED wsVars
    /\ UNCHANGED mac
    /\ UNCHANGED <<sessions, hash, lastActive, cmds, ifaces, faults, mu, now, cpc,
                   kid, ksess, kresp, rpc, gpc, tdStarted, removals>>

\* cleanupSession runs cleanupNetwork and returns; the handler answers
\* 200 (lines 95-96).
CloseNet(k) ==
    /\ kpc[k] = "net"
    /\ \E r \in cleanupNetwork(hash[ksess[k]], ifaces, faults) :
         /\ ifaces' = r.ifs
         /\ faults' = r.f
    /\ kpc' = [kpc EXCEPT ![k] = "done"]
    /\ kresp' = [kresp EXCEPT ![k] = 200]
    /\ UNCHANGED wsVars
    /\ UNCHANGED mac
    /\ UNCHANGED <<sessions, hash, lastActive, ptyFiles, cmds, mu, now, cpc,
                   kid, ksess, rpc, gpc, tdStarted, removals>>

(***************************************************************************)
(* sessionCleaner                                                          *)
(***************************************************************************)
\* A comparison that also expires a session exactly sessionTimeout old.
ExpiredAtTimeout(o) == now - lastActive[o] >= sessionTimeout

\* Line 261: time.Since(session.lastActive) > sessionTimeout.
Expired(o) == now - lastActive[o] > sessionTimeout

\* The session object is the value of its hash in the registry.
Registered(o) == hash[o] # "" /\ sessions[hash[o]] = o

\* The sessions a scan removes.
ScanRemoves == {o \in Objs : Registered(o) /\ Expired(o)}

\* Lines 258-259: the ticker fires and the loop takes the lock.
ReaperLock ==
    /\ rpc = "idle"
    /\ mu = Free
    /\ mu' = <<"reaper", 0>>
    /\ rpc' = "locked"
    /\ UNCHANGED wsVars
    /\ UNCHANGED mac
    /\ UNCHANGED <<sessions, hash, lastActive, ptyFiles, cmds, ifaces, faults, now, cpc,
                   kpc, kid, ksess, kresp, gpc, tdStarted, removals>>

\* Lines 260-267: every expired session is deleted from the registry and
\* `go cleanupSession(session)` is started for it; then the lock is released.
ReaperScan ==
    /\ rpc = "locked"
    /\ mu = <<"reaper", 0>>
    /\ LET R == ScanRemoves
       IN  /\ sessions' = [h \in Hashes |->
                             IF sessions[h] \in R THEN NoObj ELSE sessions[h]]
           /\ removals' = [o \in Objs |->
                             IF o \in R THEN removals[o] + 1 ELSE removals[o]]
           /\ tdStarted' = [o \in Objs |->
                             IF o \in R THEN tdStarted[o] + 1 ELSE tdStarted[o]]
           /\ gpc' = [o \in Objs |-> IF o \in R THEN "kill" ELSE gpc[o]]
    /\ mu' = Free
    /\ rpc' = "idle"
    /\ UNCHANGED wsVars
    /\ UNCHANGED mac
    /\ UNCHANGED <<hash, lastActive, ptyFiles, cmds, ifaces, faults, now, cpc, kpc,
                   kid, ksess, kresp>>

\* The goroutine's cleanupSession: kill, close the ptys, cleanupNetwork.
ReapKill(o) ==
    /\ gpc[o] = "kill"
    /\ cmds' = KillAll(o)
    /\ gpc' = [gpc EXCEPT ![o] = "ptys"]
    /\ UNCHANGED wsVars
    /\ UNCHANGED mac
    /\ UNCHANGED <<sessions, hash, lastActive, ptyFiles, ifaces, faults, mu, now, cpc,
                   kpc, kid, ksess, kresp, rpc, tdStarted, removals>>

ReapPtys(o) ==
    /\ gpc[o] = "ptys"
    /\ ptyFiles' = CloseAllPtys(o)
    /\ gpc' = [gpc EXCEPT ![o] = "net"]
    /\ UNCHANGED wsVars
    /\ UNCHANGED mac
    /\ UNCHANGED <<sessions, hash, lastActive, cmds, ifaces, faults, mu, now, cpc,
                   kpc, kid, ksess, kresp, rpc, tdStarted, removals>>

ReapNet(o) ==
    /\ gpc[o] = "net"
    /\ \E r \in cleanupNetwork(hash[o], ifaces, faults) :
         /\ ifaces' = r.ifs
         /\ faults' = r.f
    /\ gpc' = [gpc EXCEPT ![o] = "done"]
    /\ UNCHANGED wsVars
    /\ UNCHANGED mac
    /\ UNCHANGED <<sessions, hash, lastActive, ptyFiles, cmds, mu, now, cpc,
                   kpc, kid, ksess, kresp, rpc, tdStarted, removals>>

(***************************************************************************)
(* Environment                                                             *)
(***************************************************************************)
\* A qemu process exits on its own (guest shutdown, crash).
VMExit(o, m) ==
    /\ cmds[o][m] = "running"
    /\ cmds' = [cmds EXCEPT ![o][m] = "exited"]
    /\ UNCHANGED wsVars
    /\ UNCHANGED mac
    /\ UNCHANGED <<sessions, hash, lastActive, ptyFiles, ifaces, faults, mu, now, cpc,
                   kpc, kid, ksess, kresp, rpc, gpc, tdStarted, removals>>

\* The clock advances.
AdvanceTime ==
    /\ now < MaxTime
    /\ now' = now + 1
    /\ UNCHANGED wsVars
    /\ UNCHANGED mac
    /\ UNCHANGED <<sessions, hash, lastActive, ptyFiles, cmds, ifaces, faults, mu, cpc,
                   kpc, kid, ksess, kresp, rpc, gpc, tdStarted, removals>>

(***************************************************************************)
(* wsHandler                                                               *)
(***************************************************************************)
lifeRest == <<sessions, hash, ptyFiles, cmds, mac, ifaces, now, cpc, kpc, kid,
              ksess, kresp, rpc, gpc, tdStarted, removals>>

\* wsConn.Close(): closing a closed connection changes nothing.
CloseConn(c) == [conn EXCEPT ![c] = IF @ = "none" THEN "none" ELSE "closed"]

\* A validation that lets any machine id through.
ValidRequestAnyMachine(id, m) == id # ""

\* Lines 104-112: sessionID is present and machine is "1" or "2".
ValidRequest(id, m) == id # "" /\ (m = "1" \/ m = "2")

\* Lines 101-112: the parameters are validated.  (The parameters of a
\* rejected request are not kept: the handler has returned.)
WsRequest(c) ==
    /\ wpc[c] = "idle"
    /\ \A d \in Conns : d < c => wpc[d] # "idle"
    /\ \E id \in Hashes \cup {""}, m \in Machines \cup {"3"} :
         IF ~ValidRequest(id, m)
         THEN /\ wresp' = [wresp EXCEPT ![c] = 400]
              /\ wpc' = [wpc EXCEPT ![c] = "done"]
              /\ UNCHANGED <<wsid, wmach>>
         ELSE /\ wsid' = [wsid EXCEPT ![c] = id]
              /\ wmach' = [wmach EXCEPT ![c] = m]
              /\ wresp' = wresp
              /\ wpc' = [wpc EXCEPT ![c] = "lock"]
    /\ UNCHANGED <<lifeRest, lastActive, mu, faults, wsess, wmsg, conn, gone,
                   inq, frames, gr, gchunk, ptyBuf, ptyIn, produced, got, prior,
                   nOut, printed, nMsg>>

\* Line 114: sessionsMu.Lock().
WsLock(c) ==
    /\ wpc[c] = "lock"
    /\ mu = Free
    /\ mu' = <<"ws", c>>
    /\ wpc' = [wpc EXCEPT ![c] = "locked"]
    /\ UNCHANGED <<lifeRest, lastActive, faults, wsid, wmach, wsess, wresp,
                   wmsg, conn, gone, inq, frames, gr, gchunk, ptyBuf, ptyIn,
                   produced, got, prior, nOut, printed, nMsg>>

\* A handler that returns "not found" without the Unlock of line 117.
WsLookupKeepingLock(c) ==
    /\ wpc[c] = "locked"
    /\ mu = <<"ws", c>>
    /\ IF sessions[wsid[c]] = NoObj
       THEN /\ wresp' = [wresp EXCEPT ![c] = 404]
            /\ wpc' = [wpc EXCEPT ![c] = "done"]
            /\ wsid' = [wsid EXCEPT ![c] = ""]
            /\ wmach' = [wmach EXCEPT ![c] = ""]
            /\ UNCHANGED <<wsess, lastActive, mu>>
       ELSE /\ wsess' = [wsess EXCEPT ![c] = sessions[wsid[c]]]
            /\ lastActive' = [lastActive EXCEPT ![sessions[wsid[c]]] = now]
            /\ wpc' = [wpc EXCEPT ![c] = "upgrade"]
            /\ mu' = Free
            /\ UNCHANGED <<wresp, wsid, wmach>>
    /\ UNCHANGED <<lifeRest, faults, wmsg, conn, gone, inq,
                   frames, gr, gchunk, ptyBuf, ptyIn, produced, got, prior, nOut, printed, nMsg>>

\* Lines 115-123: unknown session is "not found"; otherwise lastActive is
\* refreshed; the lock is released on both paths.
WsLookup(c) ==
    /\ wpc[c] = "locked"
    /\ mu = <<"ws", c>>
    /\ mu' = Free
    /\ IF sessions[wsid[c]] = NoObj
       THEN /\ wresp' = [wresp EXCEPT ![c] = 404]
            /\ wpc' = [wpc EXCEPT ![c] = "done"]
            /\ wsid' = [wsid EXCEPT ![c] = ""]
            /\ wmach' = [wmach EXCEPT ![c] = ""]
            /\ UNCHANGED <<wsess, lastActive>>
       ELSE /\ wsess' = [wsess EXCEPT ![c] = sessions[wsid[c]]]
            /\ lastActive' = [lastActive EXCEPT ![sessions[wsid[c]]] = now]
            /\ wpc' = [wpc EXCEPT ![c] = "upgrade"]
            /\ UNCHANGED <<wresp, wsid, wmach>>
    /\ UNCHANGED <<lifeRest, faults, wmsg, conn, gone, inq,
                   frames, gr, gchunk, ptyBuf, ptyIn, produced, got, prior, nOut, printed, nMsg>>

\* Lines 126-131: the upgrade; a failed handshake ends the handler.
WsUpgrade(c) ==
    /\ wpc[c] = "upgrade"
    /\ \/ /\ conn' = [conn EXCEPT ![c] = "open"]
          /\ wresp' = [wresp EXCEPT ![c] = 101]
          /\ wpc' = [wpc EXCEPT ![c] = "pty"]
          /\ faults' = faults
       \/ /\ faults < MaxFaults
          /\ faults' = faults + 1
          /\ wresp' = [wresp EXCEPT ![c] = 400]
          /\ wpc' = [wpc EXCEPT ![c] = "done"]
          /\ conn' = conn
    /\ UNCHANGED <<lifeRest, lastActive, mu, wsid, wmach, wsess, wmsg, gone,
                   inq, frames, gr, gchunk, ptyBuf, ptyIn, produced, got, prior,
                   nOut, printed, nMsg>>

\* The bridges of machine m of session o whose client has disconnected and
\* whose handler has returned.
Disconnected(o, m) ==
    {d \in Conns : /\ gr[d] # "none" /\ gone[d] /\ wpc[d] = "done"
                   /\ wsess[d] = o /\ wmach[d] = m}

\* Lines 133-155: the pty of the machine is looked up; when the session
\* has none the client is told and the handler returns (closing the
\* connection); otherwise the pty-reading goroutine is started.
WsPty(c) ==
    /\ wpc[c] = "pty"
    /\ IF ptyFiles[wsess[c]][wmach[c]] = "none"
       THEN /\ frames' = [frames EXCEPT ![c] = Append(@, <<0>>)]
            /\ conn' = CloseConn(c)
            /\ wpc' = [wpc EXCEPT ![c] = "done"]
            /\ UNCHANGED <<gr, prior>>
       ELSE /\ gr' = [gr EXCEPT ![c] = "read"]
            /\ prior' = [prior EXCEPT ![c] = Disconnected(wsess[c], wmach[c])]
            /\ wpc' = [wpc EXCEPT ![c] = "read"]
            /\ UNCHANGED <<frames, conn>>
    /\ UNCHANGED <<lifeRest, lastActive, mu, faults, wsid, wmach, wsess, wresp,
                   wmsg, gone, inq, gchunk, ptyBuf, ptyIn, produced, got, nOut, printed,
                   nMsg>>

\* A ptmx.Read that a Close of the file does not wake up.
PtyReadableUnlessClosed(o, m) ==
    /\ ptyFiles[o][m] # "closed"
    /\ ptyBuf[o][m] # <<>> \/ cmds[o][m] # "running"

\* Line 144: ptmx.Read blocks until the machine printed something, the pty
\* was closed, or the machine is gone with nothing left to read.
PtyReadable(o, m) ==
    \/ ptyFiles[o][m] = "closed"
    \/ ptyBuf[o][m] # <<>>
    \/ cmds[o][m] # "running"

\* Lines 144-149: on data the goroutine holds the chunk; on an error it
\* closes the connection and ends.
GrRead(c) ==
    /\ gr[c] = "read"
    /\ LET o == wsess[c]
           m == wmach[c]
       IN  /\ PtyReadable(o, m)
           /\ IF ptyFiles[o][m] # "closed" /\ ptyBuf[o][m] # <<>>
              THEN /\ gchunk' = [gchunk EXCEPT ![c] = ptyBuf[o][m]]
                   /\ ptyBuf' = [ptyBuf EXCEPT ![o][m] = <<>>]
                   /\ gr' = [gr EXCEPT ![c] = "write"]
                   /\ conn' = conn
              ELSE /\ conn' = CloseConn(c)
                   /\ gr' = [gr EXCEPT ![c] = "done"]
                   /\ UNCHANGED <<gchunk, ptyBuf>>
    /\ UNCHANGED <<lifeRest, lastActive, mu, faults, wpc, wsid, wmach, wsess,
                   wresp, wmsg, gone, inq, frames, ptyIn, produced, got, prior,
                   nOut, printed, nMsg>>

\* Lines 150-153: WriteMessage(BinaryMessage, chunk).  On a closed
\* connection it fails and the goroutine ends; towards a client that is
\* gone it fails, or is accepted by the socket and lost.
GrWrite(c) ==
    /\ gr[c] = "write"
    /\ \/ /\ conn[c] = "open" /\ ~gone[c]
          /\ frames' = [frames EXCEPT ![c] = Append(@, gchunk[c])]
          /\ gr' = [gr EXCEPT ![c] = "read"]
       \/ /\ conn[c] = "open" /\ gone[c]
          /\ frames' = frames
          /\ gr' \in {[gr EXCEPT ![c] = "read"], [gr EXCEPT ![c] = "done"]}
       \/ /\ conn[c] = "closed"
          /\ frames' = frames
          /\ gr' = [gr EXCEPT ![c] = "done"]
    /\ gchunk' = [gchunk EXCEPT ![c] = <<>>]
    /\ UNCHANGED <<lifeRest, lastActive, mu, faults, wpc, wsid, wmach, wsess,
                   wresp, wmsg, conn, gone, inq, ptyBuf, ptyIn, produced, got, prior,
                   nOut, printed, nMsg>>

\* Line 164: only text and binary messages are written to the pty.
Forwarded(msg) == msg.type = "binary" \/ msg.type = "text"

\* A handler that takes the session out of the registry when ReadMessage
\* fails.
WsReadDroppingSession(c) ==
    /\ wpc[c] = "read"
    /\ conn[c] = "closed" \/ gone[c]
    /\ conn' = CloseConn(c)
    /\ wpc' = [wpc EXCEPT ![c] = "done"]
    /\ sessions' = deleteSession(wsid[c])
    /\ UNCHANGED <<hash, ptyFiles, cmds, mac, ifaces, now, cpc, kpc, kid, ksess,
                   kresp, rpc, gpc, tdStarted, removals, lastActive, mu,
                   faults, wsid, wmach, wsess, wresp, wmsg, inq, got, gone,
                   frames, gr, gchunk, ptyBuf, ptyIn, produced, prior, nOut, printed,
                   nMsg>>

\* Lines 159-163: ReadMessage returns the next message, or an error once
\* the connection is closed or the client is gone; on the error the
\* handler returns, and the deferred wsConn.Close() runs.
WsRead(c) ==
    /\ wpc[c] = "read"
    /\ IF conn[c] = "open" /\ inq[c] # <<>>
       THEN /\ wmsg' = [wmsg EXCEPT ![c] = Head(inq[c])]
            /\ inq' = [inq EXCEPT ![c] = Tail(@)]
            /\ got' = [got EXCEPT ![c] =
                         IF Forwarded(Head(inq[c]))
                         THEN Append(@, Head(inq[c]).data) ELSE @]
            /\ wpc' = [wpc EXCEPT ![c] = "write"]
            /\ conn' = conn
       ELSE /\ conn[c] = "closed" \/ gone[c]
            /\ conn' = CloseConn(c)
            /\ wpc' = [wpc EXCEPT ![c] = "done"]
            /\ UNCHANGED <<wmsg, inq, got>>
    /\ UNCHANGED <<lifeRest, lastActive, mu, faults, wsid, wmach, wsess, wresp,
                   gone, frames, gr, gchunk, ptyBuf, ptyIn, produced, prior,
                   nOut, printed, nMsg>>

\* A handler that writes every message to the pty of machine "1".
WsWriteToFirstMachine(c) ==
    /\ wpc[c] = "write"
    /\ LET o == wsess[c]
           m == "1"
       IN  IF ~Forwarded(wmsg[c])
           THEN /\ wpc' = [wpc EXCEPT ![c] = "touchlock"]
                /\ UNCHANGED <<ptyIn, conn, faults>>
           ELSE \/ /\ ptyFiles[o][m] = "open"
                   /\ ptyIn' = [ptyIn EXCEPT ![o][m] =
                                  Append(@, [by |-> c, data |-> wmsg[c].data])]
                   /\ wpc' = [wpc EXCEPT ![c] = "touchlock"]
                   /\ UNCHANGED <<conn, faults>>
                \/ /\ \/ ptyFiles[o][m] # "open" /\ faults' = faults
                      \/ /\ ptyFiles[o][m] = "open"
                         /\ faults < MaxFaults
                         /\ faults' = faults + 1
                   /\ conn' = CloseConn(c)
                   /\ wpc' = [wpc EXCEPT ![c] = "done"]
                   /\ ptyIn' = ptyIn
    /\ UNCHANGED <<lifeRest, lastActive, mu, wsid, wmach, wsess, wresp, wmsg,
                   gone, inq, frames, gr, gchunk, ptyBuf, produced, got, prior,
                   nOut, printed, nMsg>>

\* Lines 164-169: ptmx.Write(msg).  It fails on a closed pty, and may fail
\* for a reason outside the model; on failure the handler returns without
\* refreshing lastActive.
WsWrite(c) ==
    /\ wpc[c] = "write"
    /\ LET o == wsess[c]
           m == wmach[c]
       IN  IF ~Forwarded(wmsg[c])
           THEN /\ wpc' = [wpc EXCEPT ![c] = "touchlock"]
                /\ UNCHANGED <<ptyIn, conn, faults>>
           ELSE \/ /\ ptyFiles[o][m] = "open"
                   /\ ptyIn' = [ptyIn EXCEPT ![o][m] =
                                  Append(@, [by |-> c, data |-> wmsg[c].data])]
                   /\ wpc' = [wpc EXCEPT ![c] = "touchlock"]
                   /\ UNCHANGED <<conn, faults>>
                \/ /\ \/ ptyFiles[o][m] # "open" /\ faults' = faults
                      \/ /\ ptyFiles[o][m] = "open"
                         /\ faults < MaxFaults
                         /\ faults' = faults + 1
                   /\ conn' = CloseConn(c)
                   /\ wpc' = [wpc EXCEPT ![c] = "done"]
                   /\ ptyIn' = ptyIn
    /\ UNCHANGED <<lifeRest, lastActive, mu, wsid, wmach, wsess, wresp, wmsg,
                   gone, inq, frames, gr, gchunk, ptyBuf, produced, got, prior,
                   nOut, printed, nMsg>>

\* Line 171: sessionsMu.Lock().
WsTouchLock(c) ==
    /\ wpc[c] = "touchlock"
    /\ mu = Free
    /\ mu' = <<"ws", c>>
    /\ wpc' = [wpc EXCEPT ![c] = "touch"]
    /\ UNCHANGED <<lifeRest, lastActive, faults, wsid, wmach, wsess, wresp,
                   wmsg, conn, gone, inq, frames, gr, gchunk, ptyBuf, ptyIn,
                   produced, got, prior, nOut, printed, nMsg>>

\* A refresh that stores the time of the attach again instead of time.Now().
TouchValueStale(c) == lastActive[wsess[c]]

\* A refresh that stores a time before the message was sent.
TouchValueEarly(c) == wmsg[c].sent - 1

\* The value line 172 stores.
TouchValue(c) == now

\* Lines 172-173: session.lastActive = time.Now(); sessionsMu.Unlock().
WsTouch(c) ==
    /\ wpc[c] = "touch"
    /\ mu = <<"ws", c>>
    /\ lastActive' = [lastActive EXCEPT ![wsess[c]] = TouchValue(c)]
    /\ mu' = Free
    /\ wmsg' = [wmsg EXCEPT ![c] = NoMsg]
    /\ wpc' = [wpc EXCEPT ![c] = "read"]
    /\ UNCHANGED <<lifeRest, faults, wsid, wmach, wsess, wresp, conn, gone,
                   inq, frames, gr, gchunk, ptyBuf, ptyIn, produced, got, prior,
                   nOut, printed, nMsg>>

(***************************************************************************)
(* Clients and machines                                                    *)
(***************************************************************************)
\* A bridge is attached from the start of its goroutine to the return of
\* its handler.
Attached(c) == gr[c] # "none" /\ wpc[c] # "done"

\* The client sends a message; its payload is its serial number.
ClientSend(c) ==
    /\ conn[c] = "open" /\ ~gone[c]
    /\ nMsg < MaxMsgs
    /\ nMsg' = nMsg + 1
    /\ \E t \in MsgTypes :
         inq' = [inq EXCEPT ![c] =
                   Append(@, [type |-> t, data |-> nMsg + 1, sent |-> now])]
    /\ UNCHANGED <<lifeVars, wpc, wsid, wmach, wsess, wresp, wmsg, conn, gone,
                   frames, gr, gchunk, ptyBuf, ptyIn, produced, got, prior, nOut, printed>>

\* The client disconnects.
ClientClose(c) ==
    /\ conn[c] # "none" /\ ~gone[c]
    /\ gone' = [gone EXCEPT ![c] = TRUE]
    /\ UNCHANGED <<lifeVars, wpc, wsid, wmach, wsess, wresp, wmsg, conn, inq,
                   frames, gr, gchunk, ptyBuf, ptyIn, produced, got, prior, nOut, printed, nMsg>>

\* A running machine prints a byte on its console; its value is its serial
\* number.  `produced` records it for every bridge attached to the machine.
PtyProduce(o, m) ==
    /\ cmds[o][m] = "running"
    /\ nOut < MaxOut
    /\ nOut' = nOut + 1
    /\ ptyBuf' = [ptyBuf EXCEPT ![o][m] = Append(@, nOut + 1)]
    /\ printed' = [printed EXCEPT ![o][m] = Append(@, nOut + 1)]
    /\ produced' = [c \in Conns |->
                      IF Attached(c) /\ wsess[c] = o /\ wmach[c] = m
                      THEN Append(produced[c], nOut + 1) ELSE produced[c]]
    /\ UNCHANGED <<lifeVars, wpc, wsid, wmach, wsess, wresp, wmsg, conn, gone,
                   inq, frames, gr, gchunk, ptyIn, got, prior, nMsg>>

\* The state of SpecBridge's start: one session, created without a
\* failure and registered, and nothing else.
InitBridge ==
    LET h == CHOOSE g \in Hashes : TRUE IN
      /\ sessions = [g \in Hashes |-> IF g = h THEN 1 ELSE NoObj]
      /\ hash = [o \in Objs |-> IF o = 1 THEN h ELSE ""]
      /\ lastActive = [o \in Objs |-> 0]
      /\ ptyFiles = [o \in Objs |->
                       IF o = 1 THEN [m \in Machines |-> "open"] ELSE NoMachines]
      /\ cmds = [o \in Objs |->
                   IF o = 1 THEN [m \in Machines |-> "running"] ELSE NoMachines]
      /\ mac = [o \in Objs |->
                  [m \in Machines |-> IF o = 1 THEN macSuffix(m) ELSE NoMac]]
      /\ ifaces = {bridgeName(h)} \cup {tapName(m, h) : m \in Machines}
      /\ faults = 0
      /\ mu = Free
      /\ now = 0
      /\ cpc = [o \in Objs |-> IF o = 1 THEN "ok" ELSE "idle"]
      /\ kpc = [k \in Closers |-> "idle"]
      /\ kid = [k \in Closers |-> ""]
      /\ ksess = [k \in Closers |-> NoObj]
      /\ kresp = [k \in Closers |-> 0]
      /\ rpc = "idle"
      /\ gpc = [o \in Objs |-> "none"]
      /\ tdStarted = [o \in Objs |-> 0]
      /\ removals = [o \in Objs |-> 0]
      /\ wpc = [c \in Conns |-> "idle"]
      /\ wsid = [c \in Conns |-> ""]
      /\ wmach = [c \in Conns |-> ""]
      /\ wsess = [c \in Conns |-> NoObj]
      /\ wresp = [c \in Conns |-> 0]
      /\ wmsg = [c \in Conns |-> NoMsg]
      /\ conn = [c \in Conns |-> "none"]
      /\ gone = [c \in Conns |-> FALSE]
      /\ inq = [c \in Conns |-> <<>>]
      /\ frames = [c \in Conns |-> <<>>]
      /\ gr = [c \in Conns |-> "none"]
      /\ gchunk = [c \in Conns |-> <<>>]
      /\ ptyBuf = [o \in Objs |-> [m \in Machines |-> <<>>]]
      /\ ptyIn = [o \in Objs |-> [m \in Machines |-> <<>>]]
      /\ produced = [c \in Conns |-> <<>>]
      /\ got = [c \in Conns |-> <<>>]
      /\ prior = [c \in Conns |-> {}]
      /\ nOut = 0
      /\ printed = [o \in Objs |-> [m \in Machines |-> <<>>]]
      /\ nMsg = 0

\* The state of SpecPair's start: two sessions of different ids, created
\* without a failure and registered, and nothing else.
InitPair ==
    LET idOf == CHOOSE f \in [Objs -> Hashes] : f[1] # f[2] IN
      /\ sessions = [g \in Hashes |-> CHOOSE o \in Objs : idOf[o] = g]
      /\ hash = idOf
      /\ lastActive = [o \in Objs |-> 0]
      /\ ptyFiles = [o \in Objs |-> [m \in Machines |-> "open"]]
      /\ cmds = [o \in Objs |-> [m \in Machines |-> "running"]]
      /\ mac = [o \in Objs |-> [m \in Machines |-> macSuffix(m)]]
      /\ ifaces = IfNames
      /\ faults = 0
      /\ mu = Free
      /\ now = 0
      /\ cpc = [o \in Objs |-> "ok"]
      /\ kpc = [k \in Closers |-> "idle"]
      /\ kid = [k \in Closers |-> ""]
      /\ ksess = [k \in Closers |-> NoObj]
      /\ kresp = [k \in Closers |-> 0]
      /\ rpc = "idle"
      /\ gpc = [o \in Objs |-> "none"]
      /\ tdStarted = [o \in Objs |-> 0]
      /\ removals = [o \in Objs |-> 0]
      /\ wpc = [c \in Conns |-> "idle"]
      /\ wsid = [c \in Conns |-> ""]
      /\ wmach = [c \in Conns |-> ""]
      /\ wsess = [c \in Conns |-> NoObj]
      /\ wresp = [c \in Conns |-> 0]
      /\ wmsg = [c \in Conns |-> NoMsg]
      /\ conn = [c \in Conns |-> "none"]
      /\ gone = [c \in Conns |-> FALSE]
      /\ inq = [c \in Conns |-> <<>>]
      /\ frames = [c \in Conns |-> <<>>]
      /\ gr = [c \in Conns |-> "none"]
      /\ gchunk = [c \in Conns |-> <<>>]
      /\ ptyBuf = [o \in Objs |-> [m \in Machines |-> <<>>]]
      /\ ptyIn = [o \in Objs |-> [m \in Machines |-> <<>>]]
      /\ produced = [c \in Conns |-> <<>>]
      /\ got = [c \in Conns |-> <<>>]
      /\ prior = [c \in Conns |-> {}]
      /\ nOut = 0
      /\ printed = [o \in Objs |-> [m \in Machines |-> <<>>]]
      /\ nMsg = 0

CreateNext ==
    \/ \E o \in Objs : CreateStart(o)
    \/ \E o \in Objs : CreateSetup(o)
    \/ \E o \in Objs, m \in Machines : CreateMachine(o, m)
    \/ \E o \in Objs : CreateRollback(o)
    \/ \E o \in Objs : CreateLock(o)
    \/ \E o \in Objs : CreateInsert(o)

CloseNext ==
    \/ \E k \in Closers : CloseRequest(k)
    \/ \E k \in Closers : CloseLock(k)
    \/ \E k \in Closers : CloseRemove(k)
    \/ \E k \in Closers : CloseKill(k)
    \/ \E k \in Closers : ClosePtys(k)
    \/ \E k \in Closers : CloseNet(k)

ReapNext ==
    \/ ReaperLock
    \/ ReaperScan
    \/ \E o \in Objs : ReapKill(o)
    \/ \E o \in Objs : ReapPtys(o)
    \/ \E o \in Objs : ReapNet(o)

ExitNext == \E o \in Objs, m \in Machines : VMExit(o, m)

\* The bridge: the wsHandler calls of the connections C, their goroutines,
\* their clients, and the consoles.
WsNextOf(C) ==
    \/ \E c \in C : WsRequest(c)
    \/ \E c \in C : WsLock(c)
    \/ \E c \in C : WsLookup(c)
    \/ \E c \in C : WsUpgrade(c)
    \/ \E c \in C : WsPty(c)
    \/ \E c \in C : GrRead(c)
    \/ \E c \in C : GrWrite(c)
    \/ \E c \in C : WsRead(c)
    \/ \E c \in C : WsWrite(c)
    \/ \E c \in C : WsTouchLock(c)
    \/ \E c \in C : WsTouch(c)
    \/ \E c \in C : ClientSend(c)
    \/ \E c \in C : ClientClose(c)
    \/ \E o \in Objs, m \in Machines : PtyProduce(o, m)

WsNext == WsNextOf(Conns)

\* The registry under creates, close requests and the cleaner.
Next == CreateNext \/ CloseNext \/ ReapNext \/ AdvanceTime

Spec == Init /\ [][Next]_vars

\* createSession with failing steps, colliding hashes and machines that
\* exit, and close requests.
NextCreate == CreateNext \/ CloseNext \/ ExitNext

SpecCreate == Init /\ [][NextCreate]_vars

\* One registered session and the connections attached to it.
NextBridge == WsNext

SpecBridge == InitBridge /\ [][NextBridge]_vars

\* One registered session, one connection attached to it, the clock and
\* the cleaner.
NextTouch == WsNextOf({1}) \/ ReapNext \/ AdvanceTime

SpecTouch == InitBridge /\ [][NextTouch]_vars

\* The scheduling the code relies on: the ticker keeps firing, a started
\* goroutine keeps running, and a task that holds sessionsMu releases it.
Fairness ==
    /\ WF_vars(ReaperLock)
    /\ WF_vars(ReaperScan)
    /\ \A o \in Objs : WF_vars(ReapKill(o) \/ ReapPtys(o) \/ ReapNet(o))
    /\ \A o \in Objs : WF_vars(CreateInsert(o))

\* Creates, the clock and the cleaner.
NextReap == CreateNext \/ ReapNext \/ AdvanceTime

SpecReap == Init /\ [][NextReap]_vars /\ Fairness

\* Connections attached to one registered session whose machines may exit:
\* every I/O error of a bridge (client gone, failed write, pty at its end).
NextIO == WsNext \/ ExitNext

SpecIO == InitBridge /\ [][NextIO]_vars

\* One registered session, close requests with any id, and one connection
\* attaching to it.
NextClose == CloseNext \/ WsNextOf({1})

SpecClose == InitBridge /\ [][NextClose]_vars

\* The steps of the handlers of the connections C and of their clients,
\* without the goroutines that read the ptys (they never take sessionsMu).
WsHandlerNextOf(C) ==
    \/ \E c \in C : WsRequest(c)
    \/ \E c \in C : WsLock(c)
    \/ \E c \in C : WsLookup(c)
    \/ \E c \in C : WsUpgrade(c)
    \/ \E c \in C : WsPty(c)
    \/ \E c \in C : WsRead(c)
    \/ \E c \in C : WsWrite(c)
    \/ \E c \in C : WsTouchLock(c)
    \/ \E c \in C : WsTouch(c)
    \/ \E c \in C : ClientSend(c)
    \/ \E c \in C : ClientClose(c)

\* The tasks that take sessionsMu around one registered session: close
\* requests, the cleaner with its teardowns, the clock, and the handler of
\* one connection.
NextMutex == CloseNext \/ ReapNext \/ AdvanceTime \/ WsHandlerNextOf({1})

\* A task that holds sessionsMu keeps running to the end of its critical
\* section.
FairnessMutex ==
    /\ \A k \in Closers : WF_vars(CloseRemove(k))
    /\ \A c \in Conns : WF_vars(WsLookup(c)) /\ WF_vars(WsTouch(c))
    /\ WF_vars(ReaperScan)

SpecMutex == InitBridge /\ [][NextMutex]_vars /\ FairnessMutex

\* Sessions created by createSession, the cleaner and the clock, and the
\* handler of one connection attaching to them.
NextAttach == CreateNext \/ ReapNext \/ AdvanceTime \/ WsHandlerNextOf({1})

SpecAttach == Init /\ [][NextAttach]_vars

\* createSession on a host with leftovers of an earlier run, and machines
\* that exit.
NextStale == CreateNext \/ ExitNext

SpecStale == InitStale /\ [][NextStale]_vars

\* Two registered sessions and the connections attached to them.
SpecPair == InitPair /\ [][NextBridge]_vars

(***************************************************************************)
(* Properties                                                              *)
(***************************************************************************)
Range(s) == {s[i] : i \in DOMAIN s}

\* The close requests that removed o and have not entered cleanupSession.
PendingTeardown(o) == {k \in Closers : kpc[k] = "cleanup" /\ ksess[k] = o}

\* The interface names createSession derives for o.
NamesOf(o) == {bridgeName(hash[o])} \cup {tapName(m, hash[o]) : m \in Machines}

\* The cleaner's scan step: the step that releases the lock of a tick.
ScanStep == rpc = "locked" /\ rpc' = "idle"

\* C1: under every interleaving of close requests and cleaner ticks, a
\* session deleted from the registry is deleted once, and cleanupSession is
\* started for it exactly once: never twice, and never zero times (the one
\* task that deleted it either has started cleanupSession or is about to).
C1_TeardownOnce ==
    \A o \in Objs :
        /\ removals[o] <= 1
        /\ tdStarted[o] <= 1
        /\ tdStarted[o] + Cardinality(PendingTeardown(o)) = removals[o]

\* Two close requests for the id of o raced with a tick: one removed o and
\* started its teardown, the other was answered "not found".
C1_Witness ==
    \E o \in Objs, k1, k2 \in Closers :
        /\ k1 # k2
        /\ kid[k1] = hash[o] /\ kid[k2] = hash[o]
        /\ ksess[k1] = o /\ tdStarted[o] = 1
        /\ kresp[k2] = 404
        /\ rpc = "locked"

\* C2: when createSession has returned an error, no interface and no
\* running VM process of the attempted session remains (stated for an
\* attempt whose names no other session shares).
C2_FailedCreateLeavesNothing ==
    \A o \in Objs :
        (/\ cpc[o] = "err"
         /\ hash[o] # ""
         /\ \A p \in Objs \ {o} : hash[p] # hash[o])
        => /\ NamesOf(o) \cap ifaces = {}
           /\ \A m \in Machines : cmds[o][m] # "running"

\* The part of C2 about machines alone: after an error no VM process of the
\* attempt is running.
C2_NoProcessLeft ==
    \A o \in Objs : cpc[o] = "err" => \A m \in Machines : cmds[o][m] # "running"

\* A registered session completed its provisioning, and a session that
\* did not is known to no other task.
VisibleOnlyWhenProvisioned ==
    \A o \in Objs :
        /\ Registered(o) =>
              /\ cpc[o] = "ok"
              /\ \A m \in Machines : ptyFiles[o][m] # "none" /\ cmds[o][m] # "none"
        /\ cpc[o] # "ok" =>
              /\ \A h \in Hashes : sessions[h] # o
              /\ \A k \in Closers : ksess[k] # o
              /\ \A c \in Conns : wsess[c] # o
              /\ gpc[o] = "none" /\ removals[o] = 0 /\ tdStarted[o] = 0

\* C3: after every step, a session is in the registry only if its
\* createSession passed setupNetwork and started both machines, a session
\* whose createSession has not inserted it is known to no close request, no
\* attach and no cleaner; and the step on which a createSession fails leaves
\* the registry as it was.
C3_RegisteredOnlyWhenProvisioned ==
    [][/\ VisibleOnlyWhenProvisioned'
       /\ \A o \in Objs :
            cpc[o] # "err" /\ cpc'[o] = "err" => sessions' = sessions]_vars

\* A session is registered while the createSession of another has failed
\* after drawing its hash.
C3_Witness ==
    \E o, p \in Objs :
        /\ Registered(o)
        /\ cpc[p] = "err" /\ hash[p] # ""

\* C4: createSession never draws the id of a session that is registered,
\* never overwrites a registry entry, and its setupNetwork never removes an
\* interface of a registered session.
C4_NamesNeverReused ==
    [][\A p \in Objs :
         /\ cpc[p] = "idle" /\ cpc'[p] = "setup" =>
               \A o \in Objs : Registered(o) => hash'[p] # hash[o]
         /\ cpc[p] = "insert" /\ cpc'[p] = "ok" => sessions[hash[p]] = NoObj
         /\ cpc[p] = "setup" /\ cpc'[p] # "setup" =>
               \A o \in Objs \ {p} :
                   Registered(o) => (NamesOf(o) \cap ifaces) \subseteq ifaces']_vars

\* The parts of C4, one by one.
C4_NoOverwrite ==
    [][\A p \in Objs :
         cpc[p] = "insert" /\ cpc'[p] = "ok" => sessions[hash[p]] = NoObj]_vars

C4_NoForeignDelete ==
    [][\A p \in Objs :
         cpc[p] = "setup" /\ cpc'[p] # "setup" =>
             \A o \in Objs \ {p} :
                 Registered(o) => (NamesOf(o) \cap ifaces) \subseteq ifaces']_vars

\* C5: a tick of the cleaner leaves every registered session whose
\* lastActive is at most sessionTimeout old registered, and starts no
\* teardown for it.
C5_FreshSessionKept ==
    [][ScanStep =>
         \A o \in Objs :
             Registered(o) /\ now - lastActive[o] <= sessionTimeout =>
                 /\ sessions'[hash[o]] = o
                 /\ gpc'[o] = gpc[o]
                 /\ tdStarted'[o] = tdStarted[o]]_vars

\* A tick is scanning a registry that holds a session exactly
\* sessionTimeout old beside an expired one.
C5_Witness ==
    /\ rpc = "locked"
    /\ \E o, p \in Objs :
         /\ Registered(o) /\ now - lastActive[o] = sessionTimeout
         /\ Registered(p) /\ now - lastActive[p] > sessionTimeout

\* The tick itself: it removes every registered session older than
\* sessionTimeout and starts `go cleanupSession` for each, whatever the
\* state of earlier teardowns.
C6_TickRemovesExpired ==
    [][ScanStep =>
         \A o \in Objs :
             Registered(o) /\ now - lastActive[o] > sessionTimeout =>
                 /\ sessions'[hash[o]] = NoObj
                 /\ gpc'[o] = "kill"
                 /\ tdStarted'[o] = tdStarted[o] + 1]_vars

\* An expired session does not stay registered, and a teardown the
\* cleaner started runs to its end.
C6_ExpiredLeavesRegistry ==
    \A o \in Objs :
        /\ (Registered(o) /\ now - lastActive[o] > sessionTimeout) ~> ~Registered(o)
        /\ (gpc[o] = "kill") ~> (gpc[o] = "done")

\* C6: every tick removes every registered session older than
\* sessionTimeout and schedules its teardown; hence a registered session
\* that has expired (nothing refreshes lastActive here) is eventually
\* removed and torn down.
C6_ExpiredRemoved ==
    /\ C6_TickRemovesExpired
    /\ \A o \in Objs :
         (Registered(o) /\ now - lastActive[o] > sessionTimeout)
             ~> (gpc[o] = "done")

\* One tick removed two expired sessions and neither teardown has run yet.
C6_Witness ==
    /\ gpc[1] = "kill" /\ gpc[2] = "kill"
    /\ tdStarted[1] = 1 /\ tdStarted[2] = 1
    /\ \A h \in Hashes : sessions[h] = NoObj

RECURSIVE Flatten(_)
Flatten(fs) == IF fs = <<>> THEN <<>> ELSE Head(fs) \o Flatten(Tail(fs))

\* A bridge on which no I/O error has happened: its client is connected,
\* its connection and its pty are open, both directions are running.
Healthy(c) ==
    /\ Attached(c)
    /\ conn[c] = "open" /\ ~gone[c]
    /\ gr[c] \in {"read", "write"}
    /\ ptyFiles[wsess[c]][wmach[c]] = "open"

\* C7 as stated, for the pty -> connection direction: the step that
\* forwards a chunk to the connection refreshes the session's lastActive.
C7_RefreshedBothWays ==
    [][\A c \in Conns :
         Len(frames'[c]) > Len(frames[c]) => lastActive'[wsess[c]] = now']_vars

\* C7, amended: lastActive is refreshed when a bridge attaches (line 122)
\* and after an inbound message was handled (line 172), never by the
\* goroutine that forwards pty output; the cleaner keeps a session whose
\* last such refresh is at most sessionTimeout old.
C7_RefreshOnInboundOnly ==
    [][/\ \A c \in Conns :
            /\ wpc[c] = "locked" /\ wpc'[c] = "upgrade" =>
                  lastActive'[wsess'[c]] = now
            /\ wpc[c] = "touch" /\ wpc'[c] = "read" =>
                  lastActive'[wsess[c]] = now
            /\ gr[c] = "write" /\ gr'[c] # "write" => lastActive' = lastActive
       /\ ScanStep =>
            \A o \in Objs :
                Registered(o) /\ now - lastActive[o] <= sessionTimeout =>
                    sessions'[hash[o]] = o]_vars

\* The tick is about to remove an expired session while its bridge, which
\* already delivered a frame, holds the next chunk for a connected client.
C7_Witness ==
    /\ rpc = "locked"
    /\ \E c \in Conns :
         /\ Healthy(c) /\ gr[c] = "write" /\ frames[c] # <<>>
         /\ Registered(wsess[c]) /\ Expired(wsess[c])

DeliveredOrPending(c) ==
    Flatten(frames[c]) \o gchunk[c] \o ptyBuf[wsess[c]][wmach[c]]

\* The payloads bridge c wrote to its pty, in order.
WrittenBy(c) ==
    LET w == ptyIn[wsess[c]][wmach[c]]
        Mine(e) == e.by = c
        mine == SelectSeq(w, Mine)
    IN  [i \in DOMAIN mine |-> mine[i].data]

\* C9: on a bridge with no I/O error, the bytes the pty produced during
\* the attachment are delivered to the connection in order, none lost and
\* none twice (what is not delivered yet is held by the bridge or still in
\* the pty), and the bytes written to the pty are the payloads of the
\* inbound messages, in order.
C9_BridgeOrder ==
    \A c \in Conns :
        Healthy(c) =>
            /\ LET Entitled(b) == b \in Range(produced[c])
               IN  SelectSeq(DeliveredOrPending(c), Entitled) = produced[c]
            /\ \/ WrittenBy(c) = got[c]
               \/ /\ wpc[c] = "write"
                  /\ WrittenBy(c) = SubSeq(got[c], 1, Len(got[c]) - 1)

\* The connection -> pty half of C9 alone.
C9_InboundOrder ==
    \A c \in Conns :
        Healthy(c) =>
            \/ WrittenBy(c) = got[c]
            \/ /\ wpc[c] = "write"
               /\ WrittenBy(c) = SubSeq(got[c], 1, Len(got[c]) - 1)

\* C10: no byte the pty produced during the attachment of a bridge is
\* consumed by an earlier bridge of the same machine whose client had
\* disconnected, and whose handler had returned, before the attach.
C10_NoStaleConsumer ==
    \A c \in Conns :
        Healthy(c) =>
            \A d \in prior[c] \ {c} :
                Range(gchunk[d]) \cap Range(produced[c]) = {}

\* C11: when one direction of a bridge stops, the connection is closed
\* with it, and from then on the other direction forwards nothing: no
\* message reaches the pty after the goroutine has ended, and no frame
\* reaches the connection after the handler has returned.
C11_StopClosesAndSilences ==
    [][\A c \in Conns :
          /\ gr[c] \in {"read", "write"} /\ gr'[c] = "done" =>
                conn'[c] = "closed"
          /\ Attached(c) /\ wpc'[c] = "done" => conn'[c] = "closed"
          /\ gr[c] = "done" => WrittenBy(c)' = WrittenBy(c)
          /\ gr[c] # "none" /\ wpc[c] = "done" => frames'[c] = frames[c]]_vars

\* The goroutine -> handler half of C11: a goroutine that ends leaves the
\* connection closed.
C11_GoroutineEndCloses ==
    [][\A c \in Conns :
          gr[c] \in {"read", "write"} /\ gr'[c] = "done" =>
              conn'[c] = "closed"]_vars

\* The handler -> goroutine half of C11: the return of the handler closes
\* the connection, and no frame is delivered after it.
C11_ReturnSilencesGoroutine ==
    [][\A c \in Conns :
          /\ Attached(c) /\ wpc'[c] = "done" => conn'[c] = "closed"
          /\ gr[c] # "none" /\ wpc[c] = "done" => frames'[c] = frames[c]]_vars

\* After the goroutine has ended, the handler writes nothing to the pty.
C11_NoInboundAfterGoroutineEnd ==
    [][\A c \in Conns :
          gr[c] = "done" => WrittenBy(c)' = WrittenBy(c)]_vars

\* The scheduling of a bridge: a handler and its goroutine keep running
\* (nothing here waits for the client or for the machine), a task waiting
\* for sessionsMu gets it when it is released again and again, and the
\* cleaner releases it.
FairnessBridge ==
    /\ \A c \in Conns :
          /\ WF_vars(WsUpgrade(c))
          /\ WF_vars(WsPty(c))
          /\ WF_vars(GrRead(c))
          /\ WF_vars(GrWrite(c))
          /\ WF_vars(WsRead(c))
          /\ WF_vars(WsWrite(c))
          /\ SF_vars(WsTouchLock(c))
          /\ WF_vars(WsTouch(c))
    /\ WF_vars(ReaperScan)

\* One registered session, one connection, the clock and the cleaner,
\* with the bridge and the cleaner scheduled fairly.
SpecCancel == InitBridge /\ [][NextTouch]_vars /\ FairnessBridge

\* Both ptys of session o were closed by its teardown.
PtysClosed(o) == \A m \in Machines : ptyFiles[o][m] = "closed"

\* Both directions of the bridge of connection c have stopped and its
\* connection, if the upgrade made one, is closed.
Stopped(c) ==
    /\ wpc[c] = "done"
    /\ gr[c] \in {"none", "done"}
    /\ conn[c] # "open"

C12_WitnessLateAttach ==
    \E c \in Conns :
        /\ wpc[c] = "upgrade"
        /\ wsess[c] # NoObj /\ PtysClosed(wsess[c])
        /\ ~Registered(wsess[c])

\* A bridge of connection c ended on an I/O error: its handler returned
\* after the goroutine was started.
EndedOnError(c) == gr[c] # "none" /\ wpc[c] = "done"

\* C13: no step of a bridge, an I/O error included, removes a session from
\* the registry, kills a machine, closes a pty or deletes an interface;
\* the lookup of an attach naming a registered session goes on to the
\* upgrade, whatever happened to earlier bridges.
C13_ErrorEndsOnlyTheBridge ==
    [][/\ UNCHANGED <<sessions, ptyFiles, ifaces>>
       /\ \A o \in Objs, m \in Machines :
             cmds'[o][m] # cmds[o][m] => cmds'[o][m] = "exited"
       /\ \A c \in Conns :
             /\ wpc[c] = "locked" /\ wpc'[c] # "locked"
                /\ (\E d \in Conns : EndedOnError(d)) =>
                   IF wsid[c] = hash[1]
                   THEN wpc'[c] = "upgrade" /\ wsess'[c] = 1
                   ELSE wpc'[c] = "done"]_vars

\* A bridge ended (client gone, connection closed, goroutine ended on its
\* failed write or on the end of the pty), and a later attach to the same
\* machine of the still registered session started its own bridge.
C13_Witness ==
    \E c, d \in Conns :
        /\ c # d
        /\ EndedOnError(c) /\ gr[c] = "done" /\ conn[c] = "closed"
        /\ c \in prior[d]
        /\ Attached(d) /\ wresp[d] = 101
        /\ Registered(wsess[d])

\* A bridge ended because its machine exited: the goroutine's read failed
\* and the handler returned, with the session still registered.
C13_WitnessPtyError ==
    \E c \in Conns :
        /\ EndedOnError(c) /\ gr[c] = "done" /\ ~gone[c]
        /\ cmds[wsess[c]][wmach[c]] = "exited"
        /\ Registered(wsess[c])

\* The teardown of session o has finished: no machine runs, both ptys are
\* closed.
TornDown(o) ==
    /\ \A m \in Machines : cmds[o][m] # "running"
    /\ PtysClosed(o)

\* Close request k has answered 200 for its session.
Succeeded(k) == kresp[k] = 200

\* C14: a close request for a registered id takes the session out of the
\* registry before its teardown starts, and answers 200 only with the step
\* that ends the teardown; once it has answered, no lookup of that id, by
\* a close request or by an attach, finds the session again: the answer is
\* "not found", or the session of a later create under the same id.
C14_RemovedBeforeTeardownThenGone ==
    [][\A k \in Closers :
          /\ kpc'[k] \in {"cleanup", "ptys", "net"} => ~Registered(ksess[k])'
          /\ kpc[k] = "cleanup" /\ kpc'[k] = "ptys" => ~Registered(ksess[k])
          /\ Succeeded(k)' /\ ~Succeeded(k) =>
                /\ kpc[k] = "net" /\ kpc'[k] = "done"
                /\ TornDown(ksess[k])'
                /\ ~Registered(ksess[k])'
          /\ Succeeded(k) =>
                /\ \A j \in Closers :
                      kpc[j] = "locked" /\ kpc'[j] # "locked"
                      /\ kid[j] = kid[k] =>
                          \/ kresp'[j] = 404 /\ kpc'[j] = "done"
                          \/ ksess'[j] # ksess[k]
                /\ \A c \in Conns :
                      wpc[c] = "locked" /\ wpc'[c] # "locked"
                      /\ wsid[c] = kid[k] =>
                          \/ wresp'[c] = 404 /\ wpc'[c] = "done"
                          \/ wsess'[c] # ksess[k]]_vars

\* A close request has answered 200 and a second close request naming the
\* same id holds the mutex for its lookup.
C14_Witness ==
    \E k, j \in Closers :
        /\ Succeeded(k)
        /\ kpc[j] = "locked" /\ kid[j] = kid[k]

\* A close request has answered 200 and an attach naming the same id holds
\* the mutex for its lookup.
C14_WitnessAttach ==
    \E k \in Closers, c \in Conns :
        /\ Succeeded(k)
        /\ wpc[c] = "locked" /\ wsid[c] = kid[k]

\* Close request k was refused.
Refused(k) == kresp[k] = 400 \/ kresp[k] = 404

\* C15: a close request without an id is answered 400, one whose id is not
\* in the registry (never registered, or removed before) is answered 404;
\* a refused request holds no session, takes no teardown step, and none of
\* its steps changes the registry, a lastActive, a process, a pty or an
\* interface.
C15_RefusedCloseChangesNothing ==
    [][\A k \in Closers :
          /\ kpc[k] = "idle" /\ kpc'[k] # "idle" =>
                IF kid'[k] = ""
                THEN kresp'[k] = 400 /\ kpc'[k] = "done"
                ELSE kresp'[k] = 0 /\ kpc'[k] = "lock"
          /\ kpc[k] = "locked" /\ kpc'[k] # "locked" =>
                IF sessions[kid[k]] = NoObj
                THEN kresp'[k] = 404 /\ kpc'[k] = "done"
                ELSE kresp'[k] = 0 /\ kpc'[k] = "cleanup"
          /\ Refused(k)' =>
                /\ kpc'[k] = "done" /\ ksess'[k] = NoObj
                /\ Refused(k) => kresp'[k] = kresp[k]
          /\ kpc'[k] # kpc[k] /\ kpc'[k] \in {"lock", "locked", "done"}
             /\ kpc[k] \in {"idle", "lock", "locked"} =>
                UNCHANGED <<sessions, lastActive, cmds, ptyFiles, ifaces,
                            tdStarted, removals>>]_vars

\* A second close request for an id whose session an earlier request
\* removed has been answered 404, while another session is registered
\* whose lastActive is in the past.
C15_Witness ==
    \E k, j \in Closers :
        /\ kresp[k] = 404 /\ kid[k] = kid[j]
        /\ ksess[j] # NoObj
        /\ \E o \in Objs : Registered(o) /\ now > lastActive[o]

\* A close request without an id has been answered 400 while a session
\* is registered, its machines run and its lastActive is in the past.
C15_WitnessBadRequest ==
    \E k \in Closers :
        /\ kresp[k] = 400 /\ kid[k] = ""
        /\ \E o \in Objs :
              /\ Registered(o) /\ now > lastActive[o]
              /\ \A m \in Machines : cmds[o][m] = "running"

\* The attach of connection c was rejected before a session was found.
RejectedAttach(c) == wpc[c] = "done" /\ wsess[c] = NoObj

\* C16: an attach passes the validation only with a session id and
\* machine "1" or "2", and is answered 400 otherwise; one whose id is not
\* in the registry is answered 404; a rejected attach has no connection,
\* no goroutine, has delivered no frame and written nothing to a pty, and
\* no step on its way to a rejection changes the registry, a lastActive,
\* a process, a pty, an interface, or what a pty holds.
C16_RejectedAttachChangesNothing ==
    [][\A c \in Conns :
          /\ wpc[c] = "idle" /\ wpc'[c] # "idle" =>
                \/ /\ wpc'[c] = "lock" /\ wresp'[c] = 0
                   /\ wsid'[c] \in Hashes /\ wmach'[c] \in {"1", "2"}
                \/ wpc'[c] = "done" /\ wresp'[c] = 400
          /\ wpc[c] = "locked" /\ wpc'[c] # "locked" =>
                IF sessions[wsid[c]] = NoObj
                THEN wpc'[c] = "done" /\ wresp'[c] = 404
                ELSE wpc'[c] = "upgrade" /\ wresp'[c] = 0
          /\ RejectedAttach(c)' =>
                /\ wresp'[c] \in {400, 404}
                /\ conn'[c] = "none" /\ gr'[c] = "none"
                /\ frames'[c] = <<>> /\ got'[c] = <<>>
                /\ \A o \in Objs, m \in Machines :
                      \A i \in DOMAIN ptyIn'[o][m] : ptyIn'[o][m][i].by # c
          /\ wpc'[c] # wpc[c] /\ wpc'[c] \in {"lock", "locked", "done"}
             /\ wpc[c] \in {"idle", "lock", "locked"} =>
                UNCHANGED <<sessions, lastActive, cmds, ptyFiles, ifaces,
                            ptyBuf, ptyIn, conn, gr, frames>>]_vars

\* An attach was answered 404 while a session is registered whose
\* lastActive is in the past: a refresh would have changed it.
C16_Witness ==
    \E c \in Conns :
        /\ RejectedAttach(c) /\ wresp[c] = 404
        /\ \E o \in Objs : Registered(o) /\ now > lastActive[o]

\* An attach names the id of a session the cleaner has removed and is
\* about to be answered 404.
C16_WitnessRemoved ==
    \E c \in Conns :
        /\ wpc[c] = "locked"
        /\ wsid[c] = hash[1] /\ sessions[wsid[c]] = NoObj

\* The commands cleanupNetwork is to run for the session with hash h.
AllCleanupCmds(h) == Range(CleanupCmds(h, <<"1", "2">>))

\* Close request k is inside cleanupSession or has come back from it.
InTeardown(k) == kpc[k] \in {"cleanup", "ptys", "net"} \/ Succeeded(k)

\* C17: cleanupSession goes through all its steps whatever fails: after
\* the kill loop no machine of the session runs, also when a Kill failed
\* on a machine that had exited; after the pty loop every pty is closed;
\* cleanupNetwork runs all six commands, also after one of them failed,
\* and leaves at most as many of the session's interfaces as commands
\* broke; from the delete on the session is out of the registry, and the
\* request always ends with 200.
C17_TeardownRunsEveryStep ==
    [][\A k \in Closers :
            /\ kpc[k] = "cleanup" /\ kpc'[k] # "cleanup" =>
                  /\ kpc'[k] = "ptys"
                  /\ \A m \in Machines : cmds'[ksess[k]][m] # "running"
            /\ kpc[k] = "ptys" /\ kpc'[k] # "ptys" =>
                  /\ kpc'[k] = "net"
                  /\ PtysClosed(ksess[k])'
            /\ kpc[k] = "net" /\ kpc'[k] # "net" =>
                  /\ kpc'[k] = "done" /\ kresp'[k] = 200
                  /\ \A r \in cleanupNetwork(hash[ksess[k]], ifaces, faults) :
                        /\ Len(r.ran) = 6
                        /\ Range(r.ran) = AllCleanupCmds(hash[ksess[k]])
                        /\ Cardinality(NamesOf(ksess[k]) \cap r.ifs)
                              <= r.f - faults
                  /\ \E r \in cleanupNetwork(hash[ksess[k]], ifaces, faults) :
                        ifaces' = r.ifs /\ faults' = r.f
            /\ InTeardown(k)' => ~Registered(ksess[k])'
            /\ kpc'[k] = "done" /\ ksess'[k] # NoObj => kresp'[k] = 200]_vars

\* A close request has answered 200 for a session one of whose machines
\* had exited before the kill, and a cleanup command broke, leaving an
\* interface of the session behind.
C17_Witness ==
    \E k \in Closers :
        /\ Succeeded(k) /\ faults > 0
        /\ \E m \in Machines : cmds[ksess[k]][m] = "exited"
        /\ NamesOf(ksess[k]) \cap ifaces # {}
        /\ \A o \in Objs : o # ksess[k] => hash[o] # hash[ksess[k]]

\* No createSession and no cleanupSession is running.
Quiescent ==
    /\ \A o \in Objs : cpc[o] \in {"idle", "ok", "err"}
    /\ \A k \in Closers : kpc[k] \notin {"cleanup", "ptys", "net"}
    /\ \A o \in Objs : gpc[o] \notin {"kill", "ptys", "net"}

\* No command failed during a teardown: none failed at all, or no
\* teardown was ever started.
NoTeardownFailure == faults = 0 \/ \A o \in Objs : tdStarted[o] = 0

\* The interfaces of the registered sessions.
RegisteredNames == UNION {NamesOf(o) : o \in {p \in Objs : Registered(p)}}

\* C18: when no create and no teardown is running and no command failed
\* during a teardown, the interfaces that exist are exactly those of the
\* registered sessions, every running machine belongs to a registered
\* session, and a session that was removed has no interface and no
\* running machine left (unless its names are those of a registered one).
C18_NoResourceOutlivesSession ==
    Quiescent /\ NoTeardownFailure =>
        /\ ifaces = RegisteredNames
        /\ \A o \in Objs, m \in Machines :
              cmds[o][m] = "running" => Registered(o)
        /\ \A o \in Objs :
              removals[o] > 0 =>
                  /\ NamesOf(o) \cap ifaces \subseteq RegisteredNames
                  /\ \A m \in Machines : cmds[o][m] # "running"

\* C18 for the runs in which every create succeeded or is untouched and
\* the two sessions have different ids.
C18_WithoutFailedCreate ==
    (/\ Quiescent /\ NoTeardownFailure
     /\ \A o \in Objs : cpc[o] # "err"
     /\ \A o, p \in Objs : o # p /\ hash[o] # "" => hash[o] # hash[p])
    => /\ ifaces = RegisteredNames
       /\ \A o \in Objs, m \in Machines :
             cmds[o][m] = "running" => Registered(o)

\* The task that holds sessionsMu stands between its Lock and its Unlock.
HolderInCriticalSection ==
    /\ mu[1] = "create" => cpc[mu[2]] = "insert"
    /\ mu[1] = "close" => kpc[mu[2]] = "locked"
    /\ mu[1] = "reaper" => rpc = "locked"
    /\ mu[1] = "ws" => wpc[mu[2]] \in {"locked", "touch"}

\* The holder's step to its Unlock can be taken.
HolderCanUnlock ==
    /\ mu[1] = "create" => ENABLED CreateInsert(mu[2])
    /\ mu[1] = "close" => ENABLED CloseRemove(mu[2])
    /\ mu[1] = "reaper" => ENABLED ReaperScan
    /\ mu[1] = "ws" => ENABLED (WsLookup(mu[2]) \/ WsTouch(mu[2]))

C19_CriticalSections ==
    [][/\ HolderInCriticalSection' /\ HolderCanUnlock'
       /\ mu # Free /\ mu' # mu =>
             /\ mu' = Free
             /\ UNCHANGED <<cmds, ptyFiles, ifaces, faults, conn, gr,
                            frames, ptyBuf, ptyIn, hash, now>>
       /\ mu = Free /\ mu' # Free =>
             UNCHANGED <<sessions, lastActive, cmds, ptyFiles, ifaces,
                         faults, conn, gr, frames, ptyBuf, ptyIn>>
       /\ sessions' # sessions => mu # Free /\ mu' = Free]_vars

HasHandles(o, m) == ptyFiles[o][m] # "none" /\ cmds[o][m] # "none"

\* C20: a registered session holds a pty and a process handle for both
\* machines; once createSession has registered a session no entry of its
\* two maps appears or disappears (a teardown closes and kills, it removes
\* nothing); so the handler's lookup of the pty after the upgrade always
\* finds one and goes on to start the goroutine.
C20_HandlesOfRegisteredSession ==
    [][/\ \A o \in Objs :
            Registered(o)' => \A m \in Machines : HasHandles(o, m)'
       /\ \A o \in Objs, m \in Machines :
            cpc[o] = "ok" =>
                /\ (ptyFiles'[o][m] = "none") = (ptyFiles[o][m] = "none")
                /\ (cmds'[o][m] = "none") = (cmds[o][m] = "none")
       /\ \A c \in Conns :
            wpc[c] = "pty" /\ wpc'[c] # "pty" =>
                /\ wmach[c] \in {"1", "2"}
                /\ HasHandles(wsess[c], wmach[c])
                /\ wpc'[c] = "read" /\ gr'[c] = "read"]_vars

\* A handler is about to look up the pty of a session that the cleaner
\* removed and tore down after the handler's lookup of the session.
C20_Witness ==
    \E c \in Conns :
        /\ wpc[c] = "pty"
        /\ ~Registered(wsess[c]) /\ PtysClosed(wsess[c])
        /\ gpc[wsess[c]] = "done"

(***************************************************************************)
(* setupNetwork and cleanupNetwork as functions of the interface table     *)
(***************************************************************************)
\* s is an initial segment of t.
IsPrefixOf(s, t) ==
    /\ Len(s) <= Len(t)
    /\ \A i \in 1..Len(s) : s[i] = t[i]

\* The steps of setupNetwork in the order of lines 284-321, the taps visited
\* in the given order: the existence check of the bridge, its delete when
\* the check found it, then the commands of SetupCmds.
SetupOrder(h, order, found) ==
    <<Head(SetupCmds(h, order))>>
    \o (IF found THEN <<Cmd("delbr", bridgeName(h), "")>> ELSE <<>>)
    \o Tail(SetupCmds(h, order))

\* The commands a run of setupNetwork executed, without their outcomes.
StepsOf(r) == [i \in 1..Len(r.ran) |-> r.ran[i].cmd]

\* createSession object o returns from setupNetwork in this step.
SetupReturns(o) == cpc[o] = "setup" /\ cpc'[o] # "setup"

C21_WitnessComplete ==
    \E o \in Objs : cpc[o] = "m1" /\ NamesOf(o) \subseteq ifaces

\* A run r of setupNetwork deleted interface n before any step that creates
\* it: some delete of n returned nil, and no create of n ran before it.
DeletedFirst(r, n) ==
    \E i \in 1..Len(r.ran) :
        /\ r.ran[i].cmd.op \in {"delbr", "del"}
        /\ r.ran[i].cmd.dev = n
        /\ r.ran[i].ok
        /\ \A j \in 1..(i - 1) :
              ~(r.ran[j].cmd.op \in {"addbr", "tapadd"} /\ r.ran[j].cmd.dev = n)

\* No command of run r, started with f failures so far, failed for a reason
\* of the environment.
NoCommandBroke(r, f) == r.f = f

\* The interfaces with the names of session o that exist.
Leftovers(o) == NamesOf(o) \cap ifaces

PassedSetup(o) == cpc[o] \in {"m1", "m2", "lock", "insert", "ok"}

C22_WitnessLeftovers ==
    \E o \in Objs :
        /\ cpc[o] = "setup"
        /\ \A p \in Objs : p # o => cpc[p] = "idle"
        /\ bridgeName(hash[o]) \in ifaces
        /\ \E m \in Machines : tapName(m, hash[o]) \in ifaces

\* The sessions for which this step calls cleanupNetwork: the rollback of
\* createSession, or the last step of cleanupSession in a close request or
\* in the cleaner's goroutine.
CleanupCalledFor(o) ==
    \/ cpc[o] = "rollback" /\ cpc'[o] # "rollback"
    \/ \E k \in Closers : ksess[k] = o /\ kpc[k] = "net" /\ kpc'[k] # "net"
    \/ gpc[o] = "net" /\ gpc'[o] # "net"

\* C23: cleanupNetwork is idempotent.  In every state where the program
\* calls it, for every outcome of the call that removed the session's
\* interfaces, every outcome of a second call on the same session leaves the
\* interface table as the first call left it, runs all six commands, logs
\* no failure (every command finds its device missing, which is passed
\* over), meets no failure of its own, and returns nil as the first call
\* did.  The same holds for the calls the program makes on a session whose
\* interfaces an earlier cleanup already removed: the step changes nothing.
C23_CleanupIdempotent ==
    [][\A o \in Objs : CleanupCalledFor(o) =>
          /\ \A r1 \in cleanupNetwork(hash[o], ifaces, faults) :
                /\ ~r1.err
                /\ NamesOf(o) \cap r1.ifs = {} =>
                      \A r2 \in cleanupNetwork(hash[o], r1.ifs, r1.f) :
                         /\ r2.ifs = r1.ifs
                         /\ r2.f = r1.f
                         /\ Len(r2.ran) = 6
                         /\ r2.logged = 0
                         /\ r2.err = r1.err
          /\ NamesOf(o) \cap ifaces = {} => ifaces' = ifaces /\ faults' = faults
      ]_vars

\* A rollback is about to call cleanupNetwork for a session whose
\* interfaces the teardown of a session of the same id has removed: the
\* close request came back from its cleanupNetwork and no interface of the
\* name is left.
C23_Witness ==
    \E o \in Objs, k \in Closers :
        /\ cpc[o] = "rollback"
        /\ kpc[k] = "done" /\ ksess[k] # NoObj /\ ksess[k] # o
        /\ hash[ksess[k]] = hash[o]
        /\ NamesOf(o) \cap ifaces = {}

\* The position of the first and of the last command on a device of the set
\* D in the commands ran (0 when there is none).
FirstOn(ran, D) ==
    IF \E i \in 1..Len(ran) : ran[i].dev \in D
    THEN CHOOSE i \in 1..Len(ran) :
            /\ ran[i].dev \in D
            /\ \A j \in 1..(i - 1) : ran[j].dev \notin D
    ELSE 0

LastOn(ran, D) ==
    IF \E i \in 1..Len(ran) : ran[i].dev \in D
    THEN CHOOSE i \in 1..Len(ran) :
            /\ ran[i].dev \in D
            /\ \A j \in (i + 1)..Len(ran) : ran[j].dev \notin D
    ELSE 0

TapsOf(o) == {tapName(m, hash[o]) : m \in Machines}

\* C24 as stated: in every call of cleanupNetwork every command on a tap of
\* the session (down, delete) runs before the first command on the bridge.
C24_TapsBeforeBridge ==
    [][\A o \in Objs : CleanupCalledFor(o) =>
          \A r \in cleanupNetwork(hash[o], ifaces, faults) :
             LastOn(r.ran, TapsOf(o)) < FirstOn(r.ran, {bridgeName(hash[o])})
      ]_vars

\* C24 as the code has it: in every call of cleanupNetwork the bridge is
\* brought down and deleted first (commands 1 and 2), and the down and the
\* delete of each tap follow, tap by tap.
C24_BridgeBeforeTaps ==
    [][\A o \in Objs : CleanupCalledFor(o) =>
          \A r \in cleanupNetwork(hash[o], ifaces, faults) :
             /\ Len(r.ran) = 6
             /\ r.ran[1] = Cmd("down", bridgeName(hash[o]), "")
             /\ r.ran[2] = Cmd("delbr", bridgeName(hash[o]), "")
             /\ LastOn(r.ran, {bridgeName(hash[o])}) < FirstOn(r.ran, TapsOf(o))
             /\ \A i \in {3, 5} :
                   /\ r.ran[i].op = "down" /\ r.ran[i + 1].op = "del"
                   /\ r.ran[i].dev = r.ran[i + 1].dev
                   /\ r.ran[i].dev \in TapsOf(o)
             /\ r.ran[3].dev # r.ran[5].dev
      ]_vars

(***************************************************************************)
(* startMachine: the MAC address                                           *)
(***************************************************************************)
\* A command line was built for machine m of session o.
Launched(o, m) == mac[o][m] # NoMac

\* C25 as stated: the octet on the command line of every launched machine
\* is 100 plus the number the machine id denotes (101 for "1", 102 for
\* "2"), computed without overflow of the byte; it is the same on every
\* launch of the same machine id, different for the two machines of a
\* session, and the octet the copy of the program computes.
C25_MacOctetFromNumericId ==
    \A o \in Objs, m \in Machines : Launched(o, m) =>
        /\ mac[o][m] = 100 + DigitValue(m)
        /\ 100 + FirstByte(m) < 256
        /\ mac[o][m] = macSuffixCopy(m)
        /\ \A p \in Objs : Launched(p, m) => mac[p][m] = mac[o][m]
        /\ \A n \in Machines : (n # m /\ Launched(o, n)) => mac[o][n] # mac[o][m]

\* C25 as the code has it: src/main.go adds 100 to the character code of the
\* machine id, so machine "1" gets 149 (0x95) and machine "2" gets 150
\* (0x96); the sum stays below 256, is the same on every launch and differs
\* between the machines of a session; the copy in src/index.html computes
\* 101 and 102, which is what the numeric id gives.
C25_MacOctetFromCharacterCode ==
    \A o \in Objs, m \in Machines : Launched(o, m) =>
        /\ mac[o][m] = 100 + 48 + DigitValue(m)
        /\ mac[o][m] = (IF m = "1" THEN 149 ELSE 150)
        /\ 100 + FirstByte(m) < 256
        /\ macSuffixCopy(m) = 100 + DigitValue(m)
        /\ macSuffixCopy(m) # mac[o][m]
        /\ \A p \in Objs : Launched(p, m) => mac[p][m] = mac[o][m]
        /\ \A n \in Machines : (n # m /\ Launched(o, n)) => mac[o][n] # mac[o][m]

(***************************************************************************)
(* Teardown of one session and the other sessions                          *)
(***************************************************************************)
\* This step removes session o from the registry or is a step of its
\* cleanupSession, in a close request or in the cleaner.
TeardownStepOf(o) ==
    \/ \E k \in Closers :
          /\ ksess'[k] = o
          /\ kpc[k] \in {"locked", "cleanup", "ptys", "net"}
          /\ kpc'[k] # kpc[k]
    \/ gpc'[o] # gpc[o]

\* What a session owns is the same before and after the step: its registry
\* entry, lastActive, pty and process handles, its machines' processes and
\* command lines, its interfaces, and the bridges attached to it.
Untouched(p) ==
    /\ Registered(p)'
    /\ lastActive'[p] = lastActive[p]
    /\ ptyFiles'[p] = ptyFiles[p]
    /\ cmds'[p] = cmds[p]
    /\ mac'[p] = mac[p]
    /\ NamesOf(p) \cap ifaces' = NamesOf(p) \cap ifaces
    /\ \A c \in Conns : wsess[c] = p =>
          /\ wsess'[c] = p
          /\ conn'[c] = conn[c]
          /\ wpc'[c] = wpc[c]
          /\ gr'[c] = gr[c]

\* C26: a step that removes or tears down one session leaves every other
\* registered session, unless the same step removes that one too, as it
\* was.
C26_TeardownLeavesOthersUntouched ==
    [][\A o, p \in Objs :
          (/\ o # p
           /\ TeardownStepOf(o)
           /\ Registered(p)
           /\ ~TeardownStepOf(p)) => Untouched(p)
      ]_vars

\* C26 for sessions of different ids: the same, for every registered
\* session whose id differs from the id of the session torn down.
C26_TeardownLeavesOtherIdsUntouched ==
    [][\A o, p \in Objs :
          (/\ o # p
           /\ TeardownStepOf(o)
           /\ Registered(p)
           /\ ~TeardownStepOf(p)
           /\ hash[p] # hash[o]) => Untouched(p)
      ]_vars

(***************************************************************************)
(* Bridges and the sessions and machines they belong to                    *)
(***************************************************************************)
\* The bytes of pty output connection c holds or was sent: the chunk its
\* goroutine read and the frames delivered to its client (frame <<0>> is
\* the handler's own text, not pty output).
OutputAt(c) == (Range(gchunk[c]) \cup Range(Flatten(frames[c]))) \ {0}

\* Connection c is attached, or was, to machine m of session o.
BridgeOf(c, o, m) == gr[c] # "none" /\ wsess[c] = o /\ wmach[c] = m

\* C27, state part: every entry written to the pty of machine m of session
\* o was written by a connection attached to (o, m) and is a payload that
\* connection received; every byte of pty output a connection holds or was
\* sent was printed by the machine of the session it is attached to, and a
\* connection that never attached holds none.
C27_BridgeStaysOnItsMachine ==
    /\ \A o \in Objs, m \in Machines : \A i \in DOMAIN ptyIn[o][m] :
          LET e == ptyIn[o][m][i]
          IN  /\ BridgeOf(e.by, o, m)
              /\ e.data \in Range(got[e.by])
    /\ \A c \in Conns :
          IF gr[c] = "none"
          THEN OutputAt(c) = {} /\ got[c] = <<>>
          ELSE OutputAt(c) \subseteq Range(printed[wsess[c]][wmach[c]])

\* C27, step part: the input of a pty grows only by a write of a connection
\* attached to that machine of that session; pty output leaves the pty only
\* by a read of the goroutine of such a connection; the messages waiting on
\* a connection are taken only by its own handler; and what a connection
\* received or was sent changes only in steps of its own handler or
\* goroutine.
C27_BridgesDoNotCross ==
    [][/\ \A o \in Objs, m \in Machines :
             /\ ptyIn'[o][m] # ptyIn[o][m] =>
                   \E c \in Conns :
                      /\ BridgeOf(c, o, m)
                      /\ wpc[c] = "write" /\ wpc'[c] # "write"
                      /\ ptyIn'[o][m] = Append(ptyIn[o][m],
                                               [by |-> c, data |-> wmsg[c].data])
             /\ (ptyBuf'[o][m] # ptyBuf[o][m] /\ printed'[o][m] = printed[o][m]) =>
                   \E c \in Conns :
                      /\ BridgeOf(c, o, m)
                      /\ gr[c] = "read" /\ gr'[c] = "write"
                      /\ gchunk'[c] = ptyBuf[o][m]
        /\ \A c \in Conns :
             /\ (got'[c] # got[c] \/ Len(inq'[c]) < Len(inq[c])) =>
                   wpc[c] = "read" /\ wpc'[c] = "write" /\ wmsg'[c] = Head(inq[c])
             /\ frames'[c] # frames[c] =>
                   \/ gr[c] = "write" /\ frames'[c] = Append(frames[c], gchunk[c])
                   \/ wpc[c] = "pty" /\ wpc'[c] = "done"
             /\ gchunk'[c] # gchunk[c] => gr'[c] # gr[c]
      ]_vars /\ []C27_BridgeStaysOnItsMachine

\* Two connections are attached to machines of different sessions, each
\* has forwarded a message to its pty or has been sent output of its
\* machine, and the other session's machines have printed too.
C27_Witness ==
    \E c, d \in Conns :
        /\ gr[c] # "none" /\ gr[d] # "none"
        /\ wsess[c] # wsess[d]
        /\ frames[c] # <<>>
        /\ \E m \in Machines : ptyIn[wsess[d]][m] # <<>>
        /\ \E m \in Machines : printed[wsess[d]][m] # <<>>

\* One connection on machine "2" has forwarded a message while the other
\* machine of its session has printed and is read by another connection.
C27_WitnessMachines ==
    \E c, d \in Conns :
        /\ wsess[c] = wsess[d] /\ wsess[c] # NoObj
        /\ wmach[c] = "2" /\ wmach[d] = "1"
        /\ ptyIn[wsess[c]]["2"] # <<>>
        /\ frames[d] # <<>>

====
